---- MODULE Spec2Model ----
(***************************************************************************)
(* Model of the sigil task runtime (src/runtime/task_runner.rs): task      *)
(* definitions, parameter parsing and validation, the run_task lifecycle   *)
(* and the instance store kept as one JSON file per instance id.           *)
(*                                                                         *)
(* Text is a sequence of one-character strings, so that split_once and     *)
(* str::replace are computed character by character.  Option<T> is a       *)
(* sequence of length 0 (None) or 1 (Some).  HashMap<String,String> is a   *)
(* function whose domain is the set of keys.                               *)
(***************************************************************************)
EXTENDS Integers, Sequences, FiniteSets, TLC

\* ------------------------------------------------------------------ bounds
\* Largest value of the wall clock read by Utc::now().
MaxClock == 1
\* Instances a sequence of invocations creates (identifiers Uuid::new_v4()
\* hands out).
MaxInstances == 1
\* Longest token and longest token list given to parse_parameters on its own.
MaxTokLen == 3
MaxTokens == 2
\* Identifiers the instance store is exercised with on its own.
MaxStoreIds == 2
MaxFragments == 2

\* ------------------------------------------------------------------ Option
None == << >>
Some(x) == << x >>
IsSome(o) == Len(o) = 1
IsNone(o) == Len(o) = 0

\* ------------------------------------------------------------------ errors
\* SigilError values: the variant and what its message is built from.
ErrResourceNotFound(what) == [variant |-> "ResourceNotFound", detail |-> what]
ErrTaskExecution(what) == [variant |-> "TaskExecution", detail |-> what]
ErrTomlDe == [variant |-> "TomlDe", detail |-> << >>]
ErrSerde == [variant |-> "Serde", detail |-> << >>]
ErrIo == [variant |-> "Io", detail |-> << >>]

\* Display of a SigilError (#[error("...")]): a fixed prefix, then the detail.
ErrorToString(e) ==
    CASE e.variant = "TaskExecution" -> <<"Task execution failed: ">> \o e.detail
      [] e.variant = "ResourceNotFound" -> <<"Resource not found: ">> \o e.detail
      [] e.variant = "TomlDe" -> <<"TOML deserialization error: ">>
      [] e.variant = "Serde" -> <<"Serialization error: ">>
      [] e.variant = "Io" -> <<"I/O error: ">>

Ok(v) == [ok |-> TRUE, val |-> v]
Err(e) == [ok |-> FALSE, err |-> e]

\* ------------------------------------------------------------------ text
\* str::split_once('='): index of the first '=' of the token, 0 when none.
RECURSIVE FindEq(_, _)
FindEq(tok, i) ==
    IF i > Len(tok) THEN 0
    ELSE IF tok[i] = "=" THEN i
    ELSE FindEq(tok, i + 1)

SplitOnce(tok) ==
    LET i == FindEq(tok, 1)
    IN  IF i = 0 THEN None
        ELSE Some(<<SubSeq(tok, 1, i - 1), SubSeq(tok, i + 1, Len(tok))>>)

\* Variant of MapInsert: the value of an existing key is kept.
MapInsertKeepsFirst(m, k, v) == m @@ (k :> v)

\* HashMap::insert: the new value replaces the value of an existing key.
MapInsert(m, k, v) == (k :> v) @@ m

EmptyMap == << >>

\* Variant of ParseFrom: a token without '=' is passed over.
RECURSIVE ParseFromSkipping(_, _, _)
ParseFromSkipping(params, i, parsed) ==
    IF i > Len(params) THEN Ok(parsed)
    ELSE LET kv == SplitOnce(params[i])
         IN  IF IsSome(kv)
             THEN ParseFromSkipping(params, i + 1, MapInsert(parsed, kv[1][1], kv[1][2]))
             ELSE ParseFromSkipping(params, i + 1, parsed)

\* parse_parameters: tokens left to right, the first token without '=' ends
\* the loop with an error that quotes it.
RECURSIVE ParseFrom(_, _, _)
ParseFrom(params, i, parsed) ==
    IF i > Len(params) THEN Ok(parsed)
    ELSE LET kv == SplitOnce(params[i])
         IN  IF IsSome(kv)
             THEN ParseFrom(params, i + 1, MapInsert(parsed, kv[1][1], kv[1][2]))
             ELSE Err(ErrTaskExecution(<<"Invalid parameter format: '">> \o params[i]
                                      \o <<"'. Use key=value">>))

parse_parameters(params) == ParseFrom(params, 1, EmptyMap)

\* str::replace(pat, val): every non-overlapping match, left to right.
RECURSIVE Replace(_, _, _)
Replace(s, pat, val) ==
    IF Len(s) < Len(pat) THEN s
    ELSE IF SubSeq(s, 1, Len(pat)) = pat
         THEN val \o Replace(SubSeq(s, Len(pat) + 1, Len(s)), pat, val)
         ELSE <<s[1]>> \o Replace(Tail(s), pat, val)

\* Variant of Placeholder: the closing brace is left out.
PlaceholderOpenEnded(key) == <<"$", "{">> \o key

\* format!("${{{}}}", key)
Placeholder(key) == <<"$", "{">> \o key \o <<"}">>

\* The substitution loop over the HashMap, visiting the keys in `order`.
RECURSIVE ExpandFrom(_, _, _, _)
ExpandFrom(text, parameters, order, i) ==
    IF i > Len(order) THEN text
    ELSE ExpandFrom(Replace(text, Placeholder(order[i]), parameters[order[i]]),
                    parameters, order, i + 1)

Expand(text, parameters, order) == ExpandFrom(text, parameters, order, 1)

\* The iteration orders a HashMap with these keys can have.
Orders(keys) ==
    {o \in [1..Cardinality(keys) -> keys] : \A i, j \in DOMAIN o : i # j => o[i] # o[j]}

\* ------------------------------------------------------------------ records
TaskStatus == {"Pending", "Running", "Completed", "Failed", "Cancelled", "Retrying"}

\* Variant of MissingRequired: a parameter counts as missing only when it has
\* a default.
MissingRequiredWithDefault(definition, parameters) ==
    {n \in DOMAIN definition.parameters :
        /\ definition.parameters[n].required
        /\ n \notin DOMAIN parameters
        /\ IsSome(definition.parameters[n].default_value)}

\* Variant of MissingRequired: a default does not excuse a required
\* parameter.
MissingRequiredIgnoringDefault(definition, parameters) ==
    {n \in DOMAIN definition.parameters :
        /\ definition.parameters[n].required
        /\ n \notin DOMAIN parameters}

\* validate_parameters: the schema entries that make it fail.  The loop
\* returns at the first of them in the HashMap's iteration order, so any of
\* them can be the one the error names.
MissingRequired(definition, parameters) ==
    {n \in DOMAIN definition.parameters :
        /\ definition.parameters[n].required
        /\ n \notin DOMAIN parameters
        /\ IsNone(definition.parameters[n].default_value)}

\* Variant of validate_parameters: nothing is checked.
ValidateNothing(definition, parameters) == {Ok(<< >>)}

validate_parameters(definition, parameters) ==
    IF MissingRequired(definition, parameters) = {}
    THEN {Ok(<< >>)}
    ELSE {Err(ErrTaskExecution(<<"Required parameter '">> \o n \o <<"' not provided">>)) :
            n \in MissingRequired(definition, parameters)}

\* TaskInstance { .. } as run_task constructs it.
NewInstance(id, name, parsed_params, t) ==
    [id |-> id,
     definition_name |-> name,
     status |-> "Pending",
     parameters |-> parsed_params,
     created_at |-> t,
     started_at |-> None,
     completed_at |-> None,
     output |-> None,
     error |-> None,
     retry_count |-> 0]

\* ------------------------------------------------------------------ JSON
\* serde_json values: null, string, number, object.  A DateTime<Utc> is the
\* string of its RFC 3339 text and a Uuid the string of its hyphenated text;
\* both are kept as the value they denote under a field of their own.
JNull == [t |-> "null"]
JStr(s) == [t |-> "string", v |-> s]
JNum(n) == [t |-> "number", v |-> n]
JObj(m) == [t |-> "object", v |-> m]
JTime(n) == [t |-> "string", rfc3339 |-> n]
JUuid(u) == [t |-> "string", uuid |-> u]

JOptStr(o) == IF IsSome(o) THEN JStr(o[1]) ELSE JNull
JOptTime(o) == IF IsSome(o) THEN JTime(o[1]) ELSE JNull

\* #[derive(Serialize)] for TaskInstance.
ToJson(instance) ==
    [id |-> JUuid(instance.id),
     definition_name |-> JStr(instance.definition_name),
     status |-> JStr(instance.status),
     parameters |-> JObj([k \in DOMAIN instance.parameters |-> JStr(instance.parameters[k])]),
     created_at |-> JTime(instance.created_at),
     started_at |-> JOptTime(instance.started_at),
     completed_at |-> JOptTime(instance.completed_at),
     output |-> JOptStr(instance.output),
     error |-> JOptStr(instance.error),
     retry_count |-> JNum(instance.retry_count)]

IsJStr(j) == j.t = "string" /\ "v" \in DOMAIN j
IsJTime(j) == j.t = "string" /\ "rfc3339" \in DOMAIN j
IsJUuid(j) == j.t = "string" /\ "uuid" \in DOMAIN j
IsJNum(j) == j.t = "number"
IsJObj(j) == j.t = "object"
IsJNull(j) == j.t = "null"

FromJOptStr(j) == IF IsJNull(j) THEN None ELSE Some(j.v)
FromJOptTime(j) == IF IsJNull(j) THEN None ELSE Some(j.rfc3339)

\* #[derive(Deserialize)] for TaskInstance: does the document have its shape.
WellFormedDoc(doc) ==
    /\ IsJUuid(doc.id)
    /\ IsJStr(doc.definition_name)
    /\ IsJStr(doc.status) /\ doc.status.v \in TaskStatus
    /\ IsJObj(doc.parameters)
    /\ \A k \in DOMAIN doc.parameters.v : IsJStr(doc.parameters.v[k])
    /\ IsJTime(doc.created_at)
    /\ IsJNull(doc.started_at) \/ IsJTime(doc.started_at)
    /\ IsJNull(doc.completed_at) \/ IsJTime(doc.completed_at)
    /\ IsJNull(doc.output) \/ IsJStr(doc.output)
    /\ IsJNull(doc.error) \/ IsJStr(doc.error)
    /\ IsJNum(doc.retry_count)

FromJson(doc) ==
    [id |-> doc.id.uuid,
     definition_name |-> doc.definition_name.v,
     status |-> doc.status.v,
     parameters |-> [k \in DOMAIN doc.parameters.v |-> doc.parameters.v[k].v],
     created_at |-> doc.created_at.rfc3339,
     started_at |-> FromJOptTime(doc.started_at),
     completed_at |-> FromJOptTime(doc.completed_at),
     output |-> FromJOptStr(doc.output),
     error |-> FromJOptStr(doc.error),
     retry_count |-> doc.retry_count.v]

\* ------------------------------------------------------------------ files
\* A path of a directory holds no file, a file with a whole document, or a
\* file whose write stopped part-way (fs::write truncates, then writes).
NoFile == [kind |-> "nofile"]
Partial == [kind |-> "partial"]
JsonFile(doc) == [kind |-> "json", doc |-> doc]
TomlFile(def) == [kind |-> "toml", def |-> def]
Garbage == [kind |-> "garbage"]
\* A path under a directory that does not exist.
NoDirEntry == [kind |-> "nodir"]

\* Path::exists() of a directory and of a file in it.
DirExists(dir) == \E k \in DOMAIN dir : dir[k] # NoDirEntry
PathExists(dir, k) == dir[k] \notin {NoFile, NoDirEntry}

\* fs::create_dir_all: a directory that exists is left as it is.
create_dir_all(dir) == [k \in DOMAIN dir |-> IF dir[k] = NoDirEntry THEN NoFile ELSE dir[k]]

\* serde_json::from_str::<TaskInstance>(&content)
DeserializeInstance(file) ==
    IF file.kind = "json" /\ WellFormedDoc(file.doc)
    THEN Ok(FromJson(file.doc))
    ELSE Err(ErrSerde)

\* Variant of save_task_instance: a record that exists is not written again.
SaveCreateNew(instance, dir) ==
    IF ~PathExists(dir, instance.id)
    THEN { [ret |-> Ok(<< >>),
            dir |-> [create_dir_all(dir) EXCEPT ![instance.id] = JsonFile(ToJson(instance))]],
           [ret |-> Err(ErrIo), dir |-> dir],
           [ret |-> Err(ErrIo), dir |-> [create_dir_all(dir) EXCEPT ![instance.id] = Partial]] }
    ELSE { [ret |-> Ok(<< >>), dir |-> dir] }

\* save_task_instance: what the state directory can be after the call and
\* what the call returns.  create_dir_all or the open can fail and leave the
\* record as it was; the write can fail after the file was truncated.
save_task_instance(instance, dir) ==
    { [ret |-> Ok(<< >>),
       dir |-> [create_dir_all(dir) EXCEPT ![instance.id] = JsonFile(ToJson(instance))]],
      [ret |-> Err(ErrIo), dir |-> dir],
      [ret |-> Err(ErrIo), dir |-> [create_dir_all(dir) EXCEPT ![instance.id] = Partial]] }

\* load_task_instance_by_id.  A file that exists is read whole: the read of
\* an existing file is taken to succeed.
load_task_instance_by_id(id, dir) ==
    IF ~PathExists(dir, id)
    THEN Err(ErrResourceNotFound(<<"Task instance: ", id>>))
    ELSE DeserializeInstance(dir[id])

\* find_latest_task_instance_by_name, the loop body for the entries in the
\* order read_dir yields them: an entry that does not deserialize or has
\* another name is passed over; a record replaces the one held only when its
\* created_at is strictly later.
RECURSIVE ScanFrom(_, _, _, _, _)
ScanFrom(name, dir, order, i, latest_instance) ==
    IF i > Len(order) THEN latest_instance
    ELSE LET instance == DeserializeInstance(dir[order[i]])
         IN  IF /\ PathExists(dir, order[i])
                /\ instance.ok
                /\ instance.val.definition_name = name
                /\ (IsNone(latest_instance)
                      \/ instance.val.created_at > latest_instance[1].created_at)
             THEN ScanFrom(name, dir, order, i + 1, Some(instance.val))
             ELSE ScanFrom(name, dir, order, i + 1, latest_instance)

\* Variant of find_latest_task_instance_by_name: the record read last is
\* returned whatever its created_at.
RECURSIVE ScanLastFrom(_, _, _, _, _)
ScanLastFrom(name, dir, order, i, latest_instance) ==
    IF i > Len(order) THEN latest_instance
    ELSE LET instance == DeserializeInstance(dir[order[i]])
         IN  IF /\ PathExists(dir, order[i])
                /\ instance.ok
                /\ instance.val.definition_name = name
             THEN ScanLastFrom(name, dir, order, i + 1, Some(instance.val))
             ELSE ScanLastFrom(name, dir, order, i + 1, latest_instance)

FindLatestReadLast(name, dir) ==
    IF ~DirExists(dir)
    THEN {Err(ErrResourceNotFound(<<"No task instances found for: ", name>>))}
    ELSE {IF IsSome(l) THEN Ok(l[1])
          ELSE Err(ErrResourceNotFound(<<"No task instances found for: ", name>>)) :
            l \in {ScanLastFrom(name, dir, o, 1, None) :
                    o \in Orders({k \in DOMAIN dir : PathExists(dir, k)})}}

\* find_latest_task_instance_by_name: what it can return, over the orders in
\* which read_dir can yield the entries.  The directory listing of an existing
\* directory is taken to succeed.
find_latest_task_instance_by_name(name, dir) ==
    IF ~DirExists(dir)
    THEN {Err(ErrResourceNotFound(<<"No task instances found for: ", name>>))}
    ELSE {IF IsSome(l) THEN Ok(l[1])
          ELSE Err(ErrResourceNotFound(<<"No task instances found for: ", name>>)) :
            l \in {ScanFrom(name, dir, o, 1, None) :
                    o \in Orders({k \in DOMAIN dir : PathExists(dir, k)})}}

\* load_task_definition
load_task_definition(name, dir) ==
    IF dir[name] = NoFile
    THEN Err(ErrResourceNotFound(<<"Task definition: ", name>>))
    ELSE IF dir[name].kind = "toml"
         THEN Ok(dir[name].def)
         ELSE Err(ErrTomlDe)

\* ------------------------------------------------------------------ inputs
\* The definitions the operator has put in the definitions directory: a Shell
\* task with an optional parameter that has a default, a System task with a
\* required parameter without default, a Module task with a required
\* parameter that has a default, and a file that is not a definition.
GreetDef ==
    [name |-> "greet",
     command |-> [variant |-> "Shell", script |-> <<"$", "{", "m", "}">>],
     parameters |-> (<<"m">> :> [required |-> FALSE, default_value |-> Some(<<"H">>)]),
     timeout_seconds |-> None,
     retry_count |-> None]

ReqDef ==
    [name |-> "req",
     command |-> [variant |-> "System", command |-> <<"$", "{", "m", "}">>,
                  args |-> << <<"-">>, <<"$", "{", "m", "}">> >>],
     parameters |-> (<<"m">> :> [required |-> TRUE, default_value |-> None]),
     timeout_seconds |-> Some(1),
     retry_count |-> Some(3)]

\* The name field need not be the file's stem: loading does not compare them.
ModDef ==
    [name |-> "modstatus",
     command |-> [variant |-> "Module", module |-> "system", action |-> "status",
                  params |-> (<<"k">> :> <<"v">>)],
     parameters |-> (<<"d">> :> [required |-> TRUE, default_value |-> Some(<<"D">>)]),
     timeout_seconds |-> None,
     retry_count |-> None]

TaskNames == {"greet", "req", "mod", "bad", "none"}

InitialDefinitions ==
    [n \in TaskNames |->
        CASE n = "greet" -> TomlFile(GreetDef)
          [] n = "req" -> TomlFile(ReqDef)
          [] n = "mod" -> TomlFile(ModDef)
          [] n = "bad" -> Garbage
          [] OTHER -> NoFile]

\* The parameter tokens of a `task run` invocation: none, a token without
\* '=', and a value for m with a key no schema declares.
RunParams ==
    { << >>,
      << <<"x">> >>,
      << <<"m", "=", "i">>, <<"x", "=">> >> }

\* What a child process can write before it exits.
Stdouts == { << >>, <<"o">> }
Stderrs == { <<"e">> }

\* What two overlapping invocations are given.
ConcNames == {"greet", "mod", "none"}
ConcParams == { << >> }

Procs == {"p1", "p2"}
\* Overlapping invocations: every process makes one run that creates an
\* instance.
ConcInstances == Cardinality(Procs)
Ids == 1..(MaxInstances + ConcInstances)

\* The hyphenated text of a Uuid, and Uuid::parse_str: a text is taken as an
\* identifier exactly when it is the text of one.
UuidText(id) == ToString(id)
ParseUuid(text) ==
    IF \E i \in Ids : UuidText(i) = text
    THEN Some(CHOOSE i \in Ids : UuidText(i) = text)
    ELSE None

\* ------------------------------------------------------------------ state
VARIABLES
    defs,      \* definitions_dir: task name -> file
    store,     \* state_dir: instance id -> file
    now,       \* the wall clock
    nextId,    \* identifiers handed out so far
    conc,      \* may invocations overlap
    pc,        \* per process: where its command stands
    cmd,       \* per process: the command line it was started with
    tdef,      \* per process: task_def of run_task
    inst,      \* per process: task_instance of run_task
    child,     \* per process: the child process it spawned, if any
    result,    \* per process: result of execute_task_instance
    ret,       \* per process: what the command returned
    spawned,   \* per process: child processes spawned by this invocation
    dispatches, \* per process: calls of the command dispatcher by this invocation
    saves,     \* per process: the save calls of this invocation, in order
    lastSaved, \* per id: the instance of the latest save call that succeeded
    replaced,  \* per id: did that call replace the record of another instance value
    lastFailed \* per id: did the latest save call fail

vars == <<defs, store, now, nextId, conc, pc, cmd, tdef, inst, child, result, ret,
          spawned, dispatches, saves, lastSaved, replaced, lastFailed>>

history == <<saves, lastSaved, replaced, lastFailed>>

NoCmd == [op |-> "none"]
NoDef == [name |-> "-"]
NoInstance == [status |-> "-"]
NoResult == [ok |-> "-"]

HasInstance(p) == inst[p] # NoInstance

InitCommon ==
    /\ now = 0
    /\ nextId = 0
    /\ pc = [p \in Procs |-> "idle"]
    /\ tdef = [p \in Procs |-> NoDef]
    /\ inst = [p \in Procs |-> NoInstance]
    /\ child = [p \in Procs |-> None]
    /\ result = [p \in Procs |-> NoResult]
    /\ ret = [p \in Procs |-> NoResult]
    /\ spawned = [p \in Procs |-> 0]
    /\ dispatches = [p \in Procs |-> 0]
    /\ saves = [p \in Procs |-> << >>]
    /\ lastSaved = [i \in Ids |-> NoInstance]
    /\ replaced = [i \in Ids |-> FALSE]
    /\ lastFailed = [i \in Ids |-> FALSE]

Init ==
    /\ InitCommon
    /\ defs = InitialDefinitions
    /\ store = [i \in Ids |-> NoFile]
    /\ cmd = [p \in Procs |-> NoCmd]
    /\ conc = FALSE

\* One invocation at a time runs in the foreground process; overlapping
\* invocations use every process.
MayStart(p) ==
    /\ pc[p] = "idle"
    /\ conc \/ p = "p1"

\* Uuid::new_v4() gives an identifier no instance has had; the model has
\* IdCap of them.
IdCap == IF conc THEN ConcInstances ELSE MaxInstances

\* Does run_task(name, params) get as far as constructing an instance.
Creates(name, params) ==
    /\ load_task_definition(name, defs).ok
    /\ parse_parameters(params).ok
    /\ \A v \in validate_parameters(load_task_definition(name, defs).val,
                                     parse_parameters(params).val) : v.ok

\* Utc::now() is the wall clock: it moves on its own.
Tick ==
    /\ now < MaxClock
    /\ now' = now + 1
    /\ UNCHANGED <<defs, store, nextId, conc, pc, cmd, tdef, inst, child, result, ret,
                   spawned, dispatches, history>>

\* The command returns `r` to main.
Return(p, r) ==
    /\ ret' = [ret EXCEPT ![p] = r]
    /\ pc' = [pc EXCEPT ![p] = "done"]

\* ------------------------------------------------------------------ run_task
\* run_task, line 141: load the definition.
RunLoad(p, name, params) ==
    /\ MayStart(p)
    /\ conc => name \in ConcNames /\ params \in ConcParams
    /\ nextId < IdCap \/ ~Creates(name, params)
    /\ cmd' = [cmd EXCEPT ![p] = [op |-> "run", name |-> name, params |-> params]]
    /\ LET d == load_task_definition(name, defs)
       IN  IF d.ok
           THEN /\ tdef' = [tdef EXCEPT ![p] = d.val]
                /\ pc' = [pc EXCEPT ![p] = "parse"]
                /\ ret' = ret
           ELSE /\ tdef' = tdef
                /\ Return(p, Err(d.err))
    /\ UNCHANGED <<defs, store, now, nextId, conc, inst, child, result, spawned,
                   dispatches, history>>

\* Variant of RunPrepare: every instance gets the same identifier.
RunPrepareReusesId(p) ==
    /\ pc[p] = "parse"
    /\ LET parsed == parse_parameters(cmd[p].params)
       IN  IF ~parsed.ok
           THEN /\ Return(p, Err(parsed.err))
                /\ UNCHANGED <<inst, nextId>>
           ELSE \E v \in validate_parameters(tdef[p], parsed.val) :
                  IF ~v.ok
                  THEN /\ Return(p, Err(v.err))
                       /\ UNCHANGED <<inst, nextId>>
                  ELSE /\ nextId < IdCap
                       /\ nextId' = nextId + 1
                       /\ inst' = [inst EXCEPT ![p] =
                                     NewInstance(1, cmd[p].name, parsed.val, now)]
                       /\ pc' = [pc EXCEPT ![p] = "save_pending"]
                       /\ ret' = ret
    /\ UNCHANGED <<defs, store, now, conc, cmd, tdef, child, result, spawned, dispatches,
                   history>>

\* run_task, lines 142-159: parse, validate, construct the instance.
RunPrepare(p) ==
    /\ pc[p] = "parse"
    /\ LET parsed == parse_parameters(cmd[p].params)
       IN  IF ~parsed.ok
           THEN /\ Return(p, Err(parsed.err))
                /\ UNCHANGED <<inst, nextId>>
           ELSE \E v \in validate_parameters(tdef[p], parsed.val) :
                  IF ~v.ok
                  THEN /\ Return(p, Err(v.err))
                       /\ UNCHANGED <<inst, nextId>>
                  ELSE /\ nextId < IdCap
                       /\ nextId' = nextId + 1
                       /\ inst' = [inst EXCEPT ![p] =
                                     NewInstance(nextId + 1, cmd[p].name, parsed.val, now)]
                       /\ pc' = [pc EXCEPT ![p] = "save_pending"]
                       /\ ret' = ret
    /\ UNCHANGED <<defs, store, now, conc, cmd, tdef, child, result, spawned, dispatches,
                   history>>

\* A save call of process p with outcome s, as the history sees it.
Journal(p, instance, s) ==
    /\ saves' = [saves EXCEPT ![p] = Append(@, [status |-> instance.status, ok |-> s.ret.ok])]
    /\ lastSaved' = IF s.ret.ok THEN [lastSaved EXCEPT ![instance.id] = instance]
                    ELSE lastSaved
    /\ replaced' = IF s.ret.ok
                   THEN [replaced EXCEPT ![instance.id] =
                           store[instance.id] \notin {NoFile, JsonFile(ToJson(instance))}]
                   ELSE replaced
    /\ lastFailed' = [lastFailed EXCEPT ![instance.id] = ~s.ret.ok]

\* Variant of RunSavePending: the Pending instance is not written.
RunSavePendingSkipped(p) ==
    /\ pc[p] = "save_pending"
    /\ pc' = [pc EXCEPT ![p] = "execute"]
    /\ saves' = [saves EXCEPT ![p] = Append(@, [status |-> inst[p].status, ok |-> TRUE])]
    /\ UNCHANGED <<defs, store, now, nextId, conc, cmd, tdef, inst, child, result, ret,
                   spawned, dispatches, lastSaved, replaced, lastFailed>>

\* Variant of RunSavePending: the error of the first save is dropped.
RunSavePendingIgnoresError(p) ==
    /\ pc[p] = "save_pending"
    /\ \E s \in save_task_instance(inst[p], store) :
         /\ store' = s.dir
         /\ Journal(p, inst[p], s)
         /\ pc' = [pc EXCEPT ![p] = "execute"]
         /\ ret' = ret
    /\ UNCHANGED <<defs, now, nextId, conc, cmd, tdef, inst, child, result, spawned,
                   dispatches>>

\* run_task, line 162: the first save; `?` returns its error.
RunSavePending(p) ==
    /\ pc[p] = "save_pending"
    /\ \E s \in save_task_instance(inst[p], store) :
         /\ store' = s.dir
         /\ Journal(p, inst[p], s)
         /\ IF s.ret.ok
            THEN /\ pc' = [pc EXCEPT ![p] = "execute"]
                 /\ ret' = ret
            ELSE Return(p, s.ret)
    /\ UNCHANGED <<defs, now, nextId, conc, cmd, tdef, inst, child, result, spawned,
                   dispatches>>

\* Variant of ExecBegin: the start is stamped, the status is left Pending.
ExecBeginKeepsPending(p) ==
    /\ pc[p] = "execute"
    /\ inst' = [inst EXCEPT ![p].started_at = Some(now)]
    /\ pc' = [pc EXCEPT ![p] = "dispatch"]
    /\ UNCHANGED <<defs, store, now, nextId, conc, cmd, tdef, child, result, ret,
                   spawned, dispatches, history>>

\* Variant of ExecBegin: the Running instance is written to the state
\* directory.
ExecBeginSavesRunning(p) ==
    /\ pc[p] = "execute"
    /\ inst' = [inst EXCEPT ![p].status = "Running", ![p].started_at = Some(now)]
    /\ store' = [store EXCEPT ![inst[p].id] = JsonFile(ToJson(inst'[p]))]
    /\ pc' = [pc EXCEPT ![p] = "dispatch"]
    /\ UNCHANGED <<defs, now, nextId, conc, cmd, tdef, child, result, ret,
                   spawned, dispatches, history>>

\* execute_task_instance, lines 312-313.
ExecBegin(p) ==
    /\ pc[p] = "execute"
    /\ inst' = [inst EXCEPT ![p].status = "Running", ![p].started_at = Some(now)]
    /\ pc' = [pc EXCEPT ![p] = "dispatch"]
    /\ UNCHANGED <<defs, store, now, nextId, conc, cmd, tdef, child, result, ret,
                   spawned, dispatches, history>>

\* Variant of Finished: a failure counts as a retry.
FinishedCountsRetry(instance, r, t) ==
    IF r.ok
    THEN [instance EXCEPT !.completed_at = Some(t),
                          !.status = "Completed",
                          !.output = Some(r.val)]
    ELSE [instance EXCEPT !.completed_at = Some(t),
                          !.status = "Failed",
                          !.error = Some(ErrorToString(r.err)),
                          !.retry_count = @ + 1]

\* Variant of Finished: the failure arm also keeps what the child printed.
FinishedKeepsOutput(instance, r, t) ==
    IF r.ok
    THEN [instance EXCEPT !.completed_at = Some(t),
                          !.status = "Completed",
                          !.output = Some(r.val)]
    ELSE [instance EXCEPT !.completed_at = Some(t),
                          !.status = "Failed",
                          !.output = Some(<< >>),
                          !.error = Some(ErrorToString(r.err))]

\* Variant of Finished: the end is stamped only on success.
FinishedUnstampedFailure(instance, r, t) ==
    IF r.ok
    THEN [instance EXCEPT !.completed_at = Some(t),
                          !.status = "Completed",
                          !.output = Some(r.val)]
    ELSE [instance EXCEPT !.status = "Failed",
                          !.error = Some(ErrorToString(r.err))]

\* execute_task_instance, lines 327-339: stamp the end and record the result.
Finished(instance, r, t) ==
    IF r.ok
    THEN [instance EXCEPT !.completed_at = Some(t),
                          !.status = "Completed",
                          !.output = Some(r.val)]
    ELSE [instance EXCEPT !.completed_at = Some(t),
                          !.status = "Failed",
                          !.error = Some(ErrorToString(r.err))]

\* Variant of Finish: a failure is tried again while the definition's
\* retry_count allows.
FinishRetrying(p, r) ==
    IF ~r.ok /\ IsSome(tdef[p].retry_count) /\ inst[p].retry_count < tdef[p].retry_count[1]
    THEN /\ inst' = [inst EXCEPT ![p].retry_count = @ + 1]
         /\ result' = result
         /\ pc' = [pc EXCEPT ![p] = "dispatch"]
    ELSE /\ inst' = [inst EXCEPT ![p] = Finished(inst[p], r, now)]
         /\ result' = [result EXCEPT ![p] = r]
         /\ pc' = [pc EXCEPT ![p] = "save_final"]

Finish(p, r) ==
    /\ inst' = [inst EXCEPT ![p] = Finished(inst[p], r, now)]
    /\ result' = [result EXCEPT ![p] = r]
    /\ pc' = [pc EXCEPT ![p] = "save_final"]

\* The command line of the child process of a Shell or System command.
ShellCommandLine(script, parameters, order) ==
    [program |-> <<"b", "a", "s", "h">>,
     args |-> << <<"-", "c">>, Expand(script, parameters, order) >>]

\* Variant of SystemCommandLine: the program name is expanded too.
SystemCommandLineExpandsProgram(command, args, parameters, order) ==
    [program |-> Expand(command, parameters, order),
     args |-> [i \in 1..Len(args) |-> Expand(args[i], parameters, order)]]

SystemCommandLine(command, args, parameters, order) ==
    [program |-> command,
     args |-> [i \in 1..Len(args) |-> Expand(args[i], parameters, order)]]

CommandLines(command, parameters) ==
    IF command.variant = "Shell"
    THEN {ShellCommandLine(command.script, parameters, o) : o \in Orders(DOMAIN parameters)}
    ELSE {SystemCommandLine(command.command, command.args, parameters, o) :
            o \in Orders(DOMAIN parameters)}

SpawnError(command) ==
    IF command.variant = "Shell"
    THEN ErrTaskExecution(<<"Failed to execute shell command: ">>)
    ELSE ErrTaskExecution(<<"Failed to execute system command: ">>)

ExitError(command, stderr) ==
    IF command.variant = "Shell"
    THEN ErrTaskExecution(<<"Shell command failed: ">> \o stderr)
    ELSE ErrTaskExecution(<<"System command failed: ">> \o stderr)

\* The dispatcher is called with a Shell or System command.  Command::output(),
\* first half: the child is spawned, or the spawn fails.
DispatchSpawn(p) ==
    /\ pc[p] = "dispatch"
    /\ tdef[p].command.variant \in {"Shell", "System"}
    /\ \E line \in CommandLines(tdef[p].command, inst[p].parameters) :
         \/ /\ child' = [child EXCEPT ![p] = Some(line)]
            /\ spawned' = [spawned EXCEPT ![p] = @ + 1]
            /\ pc' = [pc EXCEPT ![p] = "wait"]
            /\ UNCHANGED <<inst, result>>
         \/ /\ Finish(p, Err(SpawnError(tdef[p].command)))
            /\ UNCHANGED <<child, spawned>>
    /\ dispatches' = [dispatches EXCEPT ![p] = @ + 1]
    /\ UNCHANGED <<defs, store, now, nextId, conc, cmd, tdef, ret, history>>

\* Variant of DispatchWait: a child that has run for the definition's
\* timeout_seconds is given up and the dispatch fails.
DispatchWaitOrDeadline(p) ==
    /\ pc[p] = "wait"
    /\ \/ \E out \in Stdouts : Finish(p, Ok(out))
       \/ \E e \in Stderrs : Finish(p, Err(ExitError(tdef[p].command, e)))
       \/ /\ IsSome(tdef[p].timeout_seconds)
          /\ now >= inst[p].started_at[1] + tdef[p].timeout_seconds[1]
          /\ Finish(p, Err(ErrTaskExecution(<<"Task timed out">>)))
    /\ UNCHANGED <<defs, store, now, nextId, conc, cmd, tdef, child, ret, spawned,
                   dispatches, history>>

\* Command::output(), second half: the child has exited.
DispatchWait(p) ==
    /\ pc[p] = "wait"
    /\ \/ \E out \in Stdouts : Finish(p, Ok(out))
       \/ \E e \in Stderrs : Finish(p, Err(ExitError(tdef[p].command, e)))
    /\ UNCHANGED <<defs, store, now, nextId, conc, cmd, tdef, child, ret, spawned,
                   dispatches, history>>

\* execute_module_command: no process, a text that describes the call, built
\* from the definition's module, action and params.
ModuleOutputs(command) ==
    {<<"Module command executed: ", command.module, " ", command.action, " with params: ">>
        \o [i \in 1..Len(o) |-> <<o[i], command.params[o[i]]>>] :
            o \in Orders(DOMAIN command.params)}

\* Variant of DispatchModule: the text is built from the run-time parameters.
DispatchModuleUsesRunParams(p) ==
    /\ pc[p] = "dispatch"
    /\ tdef[p].command.variant = "Module"
    /\ \E out \in ModuleOutputs([tdef[p].command EXCEPT !.params = inst[p].parameters]) :
         Finish(p, Ok(out))
    /\ dispatches' = [dispatches EXCEPT ![p] = @ + 1]
    /\ UNCHANGED <<defs, store, now, nextId, conc, cmd, tdef, child, ret, spawned, history>>

DispatchModule(p) ==
    /\ pc[p] = "dispatch"
    /\ tdef[p].command.variant = "Module"
    /\ \E out \in ModuleOutputs(tdef[p].command) : Finish(p, Ok(out))
    /\ dispatches' = [dispatches EXCEPT ![p] = @ + 1]
    /\ UNCHANGED <<defs, store, now, nextId, conc, cmd, tdef, child, ret, spawned, history>>

\* Variant of RunSaveFinal: a failed execution returns before the save.
RunSaveFinalOnSuccessOnly(p) ==
    /\ pc[p] = "save_final"
    /\ IF result[p].ok
       THEN \E s \in save_task_instance(inst[p], store) :
              /\ store' = s.dir
              /\ Journal(p, inst[p], s)
              /\ IF s.ret.ok
                 THEN /\ pc' = [pc EXCEPT ![p] = "report"]
                      /\ ret' = ret
                 ELSE Return(p, s.ret)
       ELSE /\ Return(p, result[p])
            /\ UNCHANGED <<store, history>>
    /\ UNCHANGED <<defs, now, nextId, conc, cmd, tdef, inst, child, result, spawned,
                   dispatches>>

\* run_task, line 170: the second save; `?` returns its error.
RunSaveFinal(p) ==
    /\ pc[p] = "save_final"
    /\ \E s \in save_task_instance(inst[p], store) :
         /\ store' = s.dir
         /\ Journal(p, inst[p], s)
         /\ IF s.ret.ok
            THEN /\ pc' = [pc EXCEPT ![p] = "report"]
                 /\ ret' = ret
            ELSE Return(p, s.ret)
    /\ UNCHANGED <<defs, now, nextId, conc, cmd, tdef, inst, child, result, spawned,
                   dispatches>>

\* Variant of RunReport: the failure is printed and success is returned.
RunReportAlwaysOk(p) ==
    /\ pc[p] = "report"
    /\ Return(p, Ok(<< >>))
    /\ UNCHANGED <<defs, store, now, nextId, conc, cmd, tdef, inst, child, result,
                   spawned, dispatches, history>>

\* run_task, lines 172-190: report and return the dispatcher's result.
RunReport(p) ==
    /\ pc[p] = "report"
    /\ Return(p, IF result[p].ok THEN Ok(<< >>) ELSE result[p])
    /\ UNCHANGED <<defs, store, now, nextId, conc, cmd, tdef, inst, child, result,
                   spawned, dispatches, history>>

\* main returns: the process and its memory are gone.
Exit(p) ==
    /\ pc[p] = "done"
    /\ pc' = [pc EXCEPT ![p] = "idle"]
    /\ cmd' = [cmd EXCEPT ![p] = NoCmd]
    /\ tdef' = [tdef EXCEPT ![p] = NoDef]
    /\ inst' = [inst EXCEPT ![p] = NoInstance]
    /\ child' = [child EXCEPT ![p] = None]
    /\ result' = [result EXCEPT ![p] = NoResult]
    /\ ret' = [ret EXCEPT ![p] = NoResult]
    /\ spawned' = [spawned EXCEPT ![p] = 0]
    /\ dispatches' = [dispatches EXCEPT ![p] = 0]
    /\ saves' = [saves EXCEPT ![p] = << >>]
    /\ UNCHANGED <<defs, store, now, nextId, conc, lastSaved, replaced, lastFailed>>

\* ------------------------------------------------------------------ show_task_status
\* Variant of show_task_status: an identifier without a record is looked up
\* as a definition name.
ShowStatusFallsBack(p, task_id) ==
    /\ MayStart(p)
    /\ cmd' = [cmd EXCEPT ![p] = [op |-> "status", task |-> task_id]]
    /\ \E r \in (IF IsSome(ParseUuid(task_id))
                  /\ load_task_instance_by_id(ParseUuid(task_id)[1], store).ok
                THEN {load_task_instance_by_id(ParseUuid(task_id)[1], store)}
                ELSE find_latest_task_instance_by_name(task_id, store)) :
         IF r.ok
         THEN /\ inst' = [inst EXCEPT ![p] = r.val]
              /\ Return(p, Ok(<< >>))
         ELSE /\ inst' = inst
              /\ Return(p, r)
    /\ UNCHANGED <<defs, store, now, nextId, conc, tdef, child, result, spawned,
                   dispatches, history>>

\* show_task_status: the record is looked up by identifier when the argument
\* parses as one, else by definition name; `?` returns the lookup's error,
\* and the record found is printed.
show_task_status(p, task_id) ==
    /\ MayStart(p)
    /\ cmd' = [cmd EXCEPT ![p] = [op |-> "status", task |-> task_id]]
    /\ \E r \in (IF IsSome(ParseUuid(task_id))
                THEN {load_task_instance_by_id(ParseUuid(task_id)[1], store)}
                ELSE find_latest_task_instance_by_name(task_id, store)) :
         IF r.ok
         THEN /\ inst' = [inst EXCEPT ![p] = r.val]
              /\ Return(p, Ok(<< >>))
         ELSE /\ inst' = inst
              /\ Return(p, r)
    /\ UNCHANGED <<defs, store, now, nextId, conc, tdef, child, result, spawned,
                   dispatches, history>>

\* ------------------------------------------------------------------ create_task
\* The files a `task create --file` can name: a definition (whose name field
\* is its own), a file that is not a definition, and a path with no file.
SourceFiles ==
    [f \in {"src.toml", "junk.toml", "missing.toml"} |->
        CASE f = "src.toml" -> TomlFile(GreetDef)
          [] f = "junk.toml" -> Garbage
          [] OTHER -> NoFile]

CreateFiles == {None} \cup {Some(f) : f \in DOMAIN SourceFiles}

\* The sample definition create_task writes when no file is given.
SampleDef(name) ==
    [name |-> name,
     command |-> [variant |-> "Shell", script |-> <<"echo 'Hello from Sigil task!'">>],
     parameters |-> (<<"message">> :> [required |-> FALSE,
                                       default_value |-> Some(<<"Hello World">>)]),
     timeout_seconds |-> Some(60),
     retry_count |-> Some(3)]

AlreadyExists(name) == ErrTaskExecution(<<"Task '", name, "' already exists">>)

\* Variant of CreateCheck: with a source file the existing definition is
\* not looked for.
CreateCheckUnlessFile(p, name, file_path) ==
    /\ MayStart(p)
    /\ cmd' = [cmd EXCEPT ![p] = [op |-> "create", name |-> name, file |-> file_path]]
    /\ IF PathExists(defs, name) /\ IsNone(file_path)
       THEN Return(p, Err(AlreadyExists(name)))
       ELSE /\ pc' = [pc EXCEPT ![p] = "create_write"]
            /\ ret' = ret
    /\ UNCHANGED <<defs, store, now, nextId, conc, tdef, inst, child, result, spawned,
                   dispatches, history>>

\* create_task, lines 247-254: the definition file that exists ends the call.
CreateCheck(p, name, file_path) ==
    /\ MayStart(p)
    /\ cmd' = [cmd EXCEPT ![p] = [op |-> "create", name |-> name, file |-> file_path]]
    /\ IF PathExists(defs, name)
       THEN Return(p, Err(AlreadyExists(name)))
       ELSE /\ pc' = [pc EXCEPT ![p] = "create_write"]
            /\ ret' = ret
    /\ UNCHANGED <<defs, store, now, nextId, conc, tdef, inst, child, result, spawned,
                   dispatches, history>>

\* The definition create_task is about to write: read from the source file,
\* or the sample.
CreateSource(name, file_path) ==
    IF IsNone(file_path) THEN Ok(SampleDef(name))
    ELSE IF SourceFiles[file_path[1]] = NoFile THEN Err(ErrIo)
    ELSE IF SourceFiles[file_path[1]].kind = "toml" THEN Ok(SourceFiles[file_path[1]].def)
    ELSE Err(ErrTomlDe)

\* create_task, lines 256-291: build the definition and write it with
\* fs::write, which can fail before or after the file was truncated.
CreateWrite(p) ==
    /\ pc[p] = "create_write"
    /\ LET d == CreateSource(cmd[p].name, cmd[p].file)
       IN  IF ~d.ok
           THEN /\ Return(p, Err(d.err))
                /\ defs' = defs
           ELSE \/ /\ defs' = [defs EXCEPT ![cmd[p].name] = TomlFile(d.val)]
                   /\ Return(p, Ok(<< >>))
                \/ /\ defs' = defs
                   /\ Return(p, Err(ErrIo))
                \/ /\ defs' = [defs EXCEPT ![cmd[p].name] = Garbage]
                   /\ Return(p, Err(ErrIo))
    /\ UNCHANGED <<store, now, nextId, conc, cmd, tdef, inst, child, result, spawned,
                   dispatches, history>>

\* ------------------------------------------------------------------ the process stops
\* The process is killed between the first save and the return of run_task:
\* its memory is gone, the state directory is as the last save left it.
Crash(p) ==
    /\ pc[p] \in {"execute", "dispatch", "wait", "save_final"}
    /\ pc' = [pc EXCEPT ![p] = "idle"]
    /\ cmd' = [cmd EXCEPT ![p] = NoCmd]
    /\ tdef' = [tdef EXCEPT ![p] = NoDef]
    /\ inst' = [inst EXCEPT ![p] = NoInstance]
    /\ child' = [child EXCEPT ![p] = None]
    /\ result' = [result EXCEPT ![p] = NoResult]
    /\ ret' = [ret EXCEPT ![p] = NoResult]
    /\ spawned' = [spawned EXCEPT ![p] = 0]
    /\ dispatches' = [dispatches EXCEPT ![p] = 0]
    /\ saves' = [saves EXCEPT ![p] = << >>]
    /\ UNCHANGED <<defs, store, now, nextId, conc, lastSaved, replaced, lastFailed>>

Next ==
    \/ Tick
    \/ \E p \in Procs, name \in TaskNames, params \in RunParams : RunLoad(p, name, params)
    \/ \E p \in Procs : RunPrepare(p)
    \/ \E p \in Procs : RunSavePending(p)
    \/ \E p \in Procs : ExecBegin(p)
    \/ \E p \in Procs : DispatchSpawn(p)
    \/ \E p \in Procs : DispatchWait(p)
    \/ \E p \in Procs : DispatchModule(p)
    \/ \E p \in Procs : RunSaveFinal(p)
    \/ \E p \in Procs : RunReport(p)
    \/ \E p \in Procs : Exit(p)

Spec == Init /\ [][Next]_vars

\* run_task is straight-line code that main awaits: a step that can be taken
\* is taken.  The wait for the child ends when the child exits, which is
\* taken to happen.
Fairness ==
    \A p \in Procs :
        /\ WF_vars(RunPrepare(p))
        /\ WF_vars(RunSavePending(p))
        /\ WF_vars(ExecBegin(p))
        /\ WF_vars(DispatchSpawn(p))
        /\ WF_vars(DispatchWait(p))
        /\ WF_vars(DispatchModule(p))
        /\ WF_vars(RunSaveFinal(p))
        /\ WF_vars(RunReport(p))

SpecFair == Init /\ [][Next]_vars /\ Fairness

\* Two CLI invocations at once: independent processes, no locking.
InitConc ==
    /\ InitCommon
    /\ defs = InitialDefinitions
    /\ store = [i \in Ids |-> NoFile]
    /\ cmd = [p \in Procs |-> NoCmd]
    /\ conc = TRUE

SpecConc == InitConc /\ [][Next]_vars

\* ------------------------------------------------------------------ parse_parameters alone
\* Every token over a letter and '=' up to MaxTokLen, every list of them up
\* to MaxTokens.
Alphabet == {"a", "="}
SeqsUpTo(S, n) == UNION {[1..k -> S] : k \in 0..n}
Tokens == SeqsUpTo(Alphabet, MaxTokLen)
TokenLists == SeqsUpTo(Tokens, MaxTokens)

InitParse ==
    /\ InitCommon
    /\ defs = InitialDefinitions
    /\ store = [i \in Ids |-> NoFile]
    /\ conc = FALSE
    /\ \E params \in TokenLists :
         cmd = [p \in Procs |-> IF p = "p1" THEN [op |-> "parse", params |-> params]
                                ELSE NoCmd]

ParseCall(p) ==
    /\ pc[p] = "idle"
    /\ cmd[p].op = "parse"
    /\ Return(p, parse_parameters(cmd[p].params))
    /\ UNCHANGED <<defs, store, now, nextId, conc, cmd, tdef, inst, child, result,
                   spawned, dispatches, history>>

NextParse == \E p \in Procs : ParseCall(p)

SpecParse == InitParse /\ [][NextParse]_vars

\* ------------------------------------------------------------------ the instance store alone
\* save_task_instance and load_task_instance_by_id called in any order with
\* instances in every stage of a run.
StoreIds == 1..MaxStoreIds

SampleInstances(id) ==
    LET pending == NewInstance(id, "greet", EmptyMap, 0)
        running == [NewInstance(id, "req", (<<"m">> :> <<"i">>), 0)
                      EXCEPT !.status = "Running", !.started_at = Some(0)]
    IN  {pending,
         Finished(running, Ok(<< >>), 1),
         Finished(running, Err(ExitError(ReqDef.command, <<"e">>)), 1)}

StoreSave(p, instance) ==
    /\ pc[p] = "idle"
    /\ cmd' = [cmd EXCEPT ![p] = [op |-> "save", id |-> instance.id]]
    /\ \E s \in save_task_instance(instance, store) :
         /\ store' = s.dir
         /\ Journal(p, instance, s)
         /\ Return(p, s.ret)
    /\ UNCHANGED <<defs, now, nextId, conc, tdef, inst, child, result, spawned, dispatches>>

StoreLoad(p, id) ==
    /\ pc[p] = "idle"
    /\ cmd' = [cmd EXCEPT ![p] = [op |-> "load", id |-> id]]
    /\ Return(p, load_task_instance_by_id(id, store))
    /\ UNCHANGED <<defs, store, now, nextId, conc, tdef, inst, child, result,
                   spawned, dispatches, history>>

\* The caller takes the result; the next call can be made.
StoreReturn(p) ==
    /\ pc[p] = "done"
    /\ pc' = [pc EXCEPT ![p] = "idle"]
    /\ cmd' = [cmd EXCEPT ![p] = NoCmd]
    /\ ret' = [ret EXCEPT ![p] = NoResult]
    /\ saves' = [saves EXCEPT ![p] = << >>]
    /\ UNCHANGED <<defs, store, now, nextId, conc, tdef, inst, child, result,
                   spawned, dispatches, lastSaved, replaced, lastFailed>>

NextStore ==
    \/ \E id \in StoreIds : \E instance \in SampleInstances(id) : StoreSave("p1", instance)
    \/ \E id \in StoreIds : StoreLoad("p1", id)
    \/ StoreReturn("p1")

SpecStore == Init /\ [][NextStore]_vars

\* ------------------------------------------------------------------ run_task with a process that can stop
NextCrash ==
    \/ Next
    \/ \E p \in Procs : Crash(p)

SpecCrash == Init /\ [][NextCrash]_vars

\* ------------------------------------------------------------------ show_task_status alone
\* The state directory as earlier invocations can have left it: per path no
\* file, a file whose write stopped part-way, a document that is JSON but no
\* TaskInstance, or the record of an instance; or no directory at all.  One
\* definition name is the text of an identifier.
QueryIds == 1..(MaxStoreIds + 1)
QueryNames == {"greet", UuidText(1)}

NotAnInstance(id) == [ToJson(NewInstance(id, "greet", EmptyMap, 0)) EXCEPT !.status = JNull]

QueryShapes ==
    {<<"nofile">>, <<"partial">>, <<"notinstance">>}
    \cup {<<"record", n, t>> : n \in QueryNames, t \in 0..MaxClock}

QueryFile(id, shape) ==
    CASE shape[1] = "nofile" -> NoFile
      [] shape[1] = "partial" -> Partial
      [] shape[1] = "notinstance" -> JsonFile(NotAnInstance(id))
      [] OTHER -> JsonFile(ToJson(NewInstance(id, shape[2], EmptyMap, shape[3])))

QueryDirs ==
    {[i \in Ids |-> NoDirEntry]}
    \cup {[i \in Ids |-> IF i \in QueryIds THEN QueryFile(i, shape[i]) ELSE NoFile] :
            shape \in [QueryIds -> QueryShapes]}

StatusArgs == {"greet", "none"} \cup {UuidText(i) : i \in QueryIds}

InitStatus ==
    /\ InitCommon
    /\ defs = InitialDefinitions
    /\ conc = FALSE
    /\ cmd = [p \in Procs |-> NoCmd]
    /\ store \in QueryDirs

NextStatus ==
    \/ \E task_id \in StatusArgs : show_task_status("p1", task_id)
    \/ Exit("p1")

SpecStatus == InitStatus /\ [][NextStatus]_vars

\* ------------------------------------------------------------------ create_task alone
NextCreate ==
    \/ \E name \in TaskNames, file_path \in CreateFiles : CreateCheck("p1", name, file_path)
    \/ CreateWrite("p1")
    \/ Exit("p1")

\* The definitions directory holds any of the operator's definitions.
InitCreate ==
    /\ InitCommon
    /\ \E present \in SUBSET {"greet", "bad"} :
         defs = [n \in TaskNames |-> IF n \in present THEN InitialDefinitions[n] ELSE NoFile]
    /\ store = [i \in Ids |-> NoFile]
    /\ conc = FALSE
    /\ cmd = [p \in Procs |-> NoCmd]

SpecCreate == InitCreate /\ [][NextCreate]_vars

\* ------------------------------------------------------------------ two create_task at once
NextCreateConc ==
    \/ \E p \in Procs, name \in TaskNames, file_path \in CreateFiles :
          CreateCheck(p, name, file_path)
    \/ \E p \in Procs : CreateWrite(p)
    \/ \E p \in Procs : Exit(p)

SpecCreateConc == InitConc /\ [][NextCreateConc]_vars

\* ------------------------------------------------------------------ list_tasks
\* The names list_tasks prints: the name field of every definition file that
\* loads.
Listed(dir) == {dir[n].def.name : n \in {k \in DOMAIN dir : load_task_definition(k, dir).ok}}

\* Variant of list_tasks: files that do not load are removed.
ListTasksPrunes(p) ==
    /\ MayStart(p)
    /\ cmd' = [cmd EXCEPT ![p] = [op |-> "list", names |-> Listed(defs)]]
    /\ defs' = [n \in DOMAIN defs |-> IF defs[n] = Garbage THEN NoFile ELSE defs[n]]
    /\ Return(p, Ok(<< >>))
    /\ UNCHANGED <<store, now, nextId, conc, tdef, inst, child, result, spawned,
                   dispatches, history>>

\* list_tasks: every *.toml file of the definitions directory is loaded and
\* printed, or warned about; nothing is written and the result is Ok.
list_tasks(p) ==
    /\ MayStart(p)
    /\ cmd' = [cmd EXCEPT ![p] = [op |-> "list", names |-> Listed(defs)]]
    /\ Return(p, Ok(<< >>))
    /\ UNCHANGED <<defs, store, now, nextId, conc, tdef, inst, child, result, spawned,
                   dispatches, history>>

\* ------------------------------------------------------------------ all four commands, interleaved
\* One process takes runs, one after the other; the other one lists, asks
\* for a status or creates a definition while a run is under way.
OpsStatusArgs == {"greet", UuidText(1)}
OpsCreateNames == {"greet", "none"}
OpsCreateFiles == {None, Some("src.toml")}

NextOps ==
    \/ \E name \in ConcNames, params \in ConcParams : RunLoad("p1", name, params)
    \/ RunPrepare("p1")
    \/ RunSavePending("p1")
    \/ ExecBegin("p1")
    \/ DispatchSpawn("p1")
    \/ DispatchWait("p1")
    \/ DispatchModule("p1")
    \/ RunSaveFinal("p1")
    \/ RunReport("p1")
    \/ list_tasks("p2")
    \/ \E task_id \in OpsStatusArgs : show_task_status("p2", task_id)
    \/ \E name \in OpsCreateNames, file_path \in OpsCreateFiles :
          CreateCheck("p2", name, file_path)
    \/ CreateWrite("p2")
    \/ \E p \in Procs : Exit(p)

SpecOps == InitConc /\ [][NextOps]_vars

\* ------------------------------------------------------------------ the substitution loop alone
\* Scripts of up to MaxFragments pieces: a placeholder, the opening of one,
\* a closing brace, a letter.  The parameter names include a name and a
\* longer name that starts with it; a value is plain, a placeholder or the
\* opening of one.
ExpandKeys == {<<"a">>, <<"a", "b">>, <<"b">>}
ExpandValues == {<<"v">>, Placeholder(<<"b">>), <<"$", "{">>}
Fragments == {Placeholder(k) : k \in ExpandKeys} \cup {<<"$", "{">>, <<"}">>, <<"a">>}

RECURSIVE Concat(_)
Concat(pieces) == IF pieces = << >> THEN << >> ELSE Head(pieces) \o Concat(Tail(pieces))

Scripts == {Concat(pieces) : pieces \in SeqsUpTo(Fragments, MaxFragments)}
ExpandMappings == UNION {[keys -> ExpandValues] : keys \in SUBSET ExpandKeys}

InitExpand ==
    /\ InitCommon
    /\ defs = InitialDefinitions
    /\ store = [i \in Ids |-> NoFile]
    /\ conc = FALSE
    /\ \E script \in Scripts, parameters \in ExpandMappings :
         cmd = [p \in Procs |-> IF p = "p1"
                                THEN [op |-> "expand", script |-> script,
                                      parameters |-> parameters]
                                ELSE NoCmd]

\* for (key, value) in &instance.parameters { .. replace .. }
ExpandCall(p) ==
    /\ pc[p] = "idle"
    /\ cmd[p].op = "expand"
    /\ \E order \in Orders(DOMAIN cmd[p].parameters) :
         Return(p, Ok(Expand(cmd[p].script, cmd[p].parameters, order)))
    /\ UNCHANGED <<defs, store, now, nextId, conc, cmd, tdef, inst, child, result,
                   spawned, dispatches, history>>

NextExpand == \E p \in Procs : ExpandCall(p)

SpecExpand == InitExpand /\ [][NextExpand]_vars

\* ================================================================== claims
\* What a token says, read off the token itself: the position of its first
\* '=', the text before it and the text after it.
HasEq(tok) == \E i \in 1..Len(tok) : tok[i] = "="
FirstEq(tok) == CHOOSE i \in 1..Len(tok) : tok[i] = "=" /\ \A j \in 1..(i - 1) : tok[j] # "="
KeyOf(tok) == SubSeq(tok, 1, FirstEq(tok) - 1)
ValueOf(tok) == SubSeq(tok, FirstEq(tok) + 1, Len(tok))
AllHaveEq(toks) == \A i \in 1..Len(toks) : HasEq(toks[i])
SuppliedKeys(toks) == {KeyOf(toks[i]) : i \in {j \in 1..Len(toks) : HasEq(toks[j])}}

LastWithKey(toks, k) ==
    CHOOSE i \in 1..Len(toks) :
        /\ HasEq(toks[i]) /\ KeyOf(toks[i]) = k
        /\ \A j \in (i + 1)..Len(toks) : HasEq(toks[j]) => KeyOf(toks[j]) # k

\* The record the state directory holds for an identifier, as a load sees it.
Stored(id) == load_task_instance_by_id(id, store)

IsRun(p) == cmd[p].op = "run"
Dispatched(p) == result[p] # NoResult
BothSavesOk(p) == Len(saves[p]) = 2 /\ saves[p][1].ok /\ saves[p][2].ok
ShellOrSystem(p) == tdef[p] # NoDef /\ tdef[p].command.variant \in {"Shell", "System"}

\* ------------------------------------------------------------------ C1
\* C1: a run of a Shell or System definition whose two saves succeed leaves,
\* under the instance id, a record that is Completed with output set and
\* error unset when the dispatcher returned success, and Failed with error
\* set and output unset when it returned failure; no instance, in memory or
\* stored, ever has both output and error set.
C1_FinalRecord ==
    /\ \A p \in Procs :
         (pc[p] \in {"report", "done"} /\ IsRun(p) /\ ShellOrSystem(p) /\ BothSavesOk(p)) =>
            /\ Stored(inst[p].id).ok
            /\ result[p].ok =>
                 /\ Stored(inst[p].id).val.status = "Completed"
                 /\ IsSome(Stored(inst[p].id).val.output)
                 /\ IsNone(Stored(inst[p].id).val.error)
            /\ ~result[p].ok =>
                 /\ Stored(inst[p].id).val.status = "Failed"
                 /\ IsSome(Stored(inst[p].id).val.error)
                 /\ IsNone(Stored(inst[p].id).val.output)
    /\ \A p \in Procs :
         HasInstance(p) => ~(IsSome(inst[p].output) /\ IsSome(inst[p].error))
    /\ \A id \in Ids :
         Stored(id).ok => ~(IsSome(Stored(id).val.output) /\ IsSome(Stored(id).val.error))

\* A System run whose child exited with failure has returned after both saves.
C1_Witness ==
    \E p \in Procs :
        /\ pc[p] = "done" /\ IsRun(p) /\ BothSavesOk(p)
        /\ tdef[p].command.variant = "System"
        /\ ~result[p].ok
        /\ Stored(inst[p].id).val.status = "Failed"

\* ------------------------------------------------------------------ C2
\* C2: an instance starts in Pending and its status changes only along
\* Pending -> Running -> Completed or Pending -> Running -> Failed; Cancelled
\* and Retrying are held by no instance and by no stored record.
C2_Step ==
    \A p \in Procs :
        /\ (~HasInstance(p) /\ inst'[p] # NoInstance) => inst'[p].status = "Pending"
        /\ (HasInstance(p) /\ inst'[p] # NoInstance /\ inst'[p].status # inst[p].status) =>
              <<inst[p].status, inst'[p].status>> \in
                  {<<"Pending", "Running">>, <<"Running", "Completed">>,
                   <<"Running", "Failed">>}

C2_NeverCancelledOrRetrying ==
    /\ \A p \in Procs : HasInstance(p) => inst[p].status \notin {"Cancelled", "Retrying"}
    /\ \A id \in Ids : Stored(id).ok => Stored(id).val.status \notin {"Cancelled", "Retrying"}

C2_StatusPath == [][C2_Step]_vars /\ []C2_NeverCancelledOrRetrying

\* An instance has gone all the way to Completed.
C2_Witness ==
    \E p \in Procs :
        HasInstance(p) /\ inst[p].status = "Completed" /\ IsSome(inst[p].started_at)

\* ------------------------------------------------------------------ C3
\* C3: a run that fails because the definition is not found or does not
\* deserialize, a token is malformed or a required parameter is missing
\* creates no instance, makes no save call (the state directory is as it was
\* before the call) and never invokes the dispatcher.
FailsBeforeCreate(name, params) ==
    \/ defs[name].kind # "toml"
    \/ ~AllHaveEq(params)
    \/ \E n \in DOMAIN defs[name].def.parameters :
          /\ defs[name].def.parameters[n].required
          /\ IsNone(defs[name].def.parameters[n].default_value)
          /\ n \notin SuppliedKeys(params)

C3_Returned ==
    \A p \in Procs :
        (IsRun(p) /\ FailsBeforeCreate(cmd[p].name, cmd[p].params)) =>
            /\ ~HasInstance(p)
            /\ saves[p] = << >>
            /\ spawned[p] = 0 /\ IsNone(child[p]) /\ ~Dispatched(p)
            /\ pc[p] \in {"parse", "done"}
            /\ pc[p] = "done" => ~ret[p].ok

C3_Step ==
    \A p \in Procs :
        (pc'[p] = "done" /\ pc[p] \in {"idle", "parse"}) =>
            /\ store' = store
            /\ nextId' = nextId

C3_NoTraceOfFailedValidation == []C3_Returned /\ [][C3_Step]_vars

\* A run with a missing required parameter has returned while a record of an
\* earlier run is in the state directory.
C3_Witness ==
    \E p \in Procs :
        /\ pc[p] = "done" /\ IsRun(p) /\ cmd[p].name = "req" /\ cmd[p].params = << >>
        /\ ~ret[p].ok
        /\ \E id \in Ids : store[id] # NoFile

\* ------------------------------------------------------------------ C4
\* C4 as stated: whenever run_task has returned an error after dispatch, the
\* stored record of the instance has status Failed.
C4_ErrorAfterDispatchMeansFailedRecord ==
    \A p \in Procs :
        (pc[p] = "done" /\ IsRun(p) /\ Dispatched(p) /\ ~ret[p].ok) =>
            /\ Stored(inst[p].id).ok
            /\ Stored(inst[p].id).val.status = "Failed"

\* C4 as amended: after dispatch the final save is called on the success and
\* on the failure path, with the terminal status; when the dispatcher failed
\* and that save succeeded, the stored record is Failed before run_task
\* returns, and what it returns is the dispatcher's error; when that save
\* fails, run_task returns the save's I/O error and the stored record is not
\* a terminal one.
C4_FailedRecordWhenFinalSaveSucceeds ==
    \A p \in Procs :
        (pc[p] \in {"report", "done"} /\ IsRun(p) /\ Dispatched(p)) =>
            /\ Len(saves[p]) = 2
            /\ saves[p][2].status = (IF result[p].ok THEN "Completed" ELSE "Failed")
            /\ (saves[p][2].ok /\ ~result[p].ok) =>
                  /\ Stored(inst[p].id).ok
                  /\ Stored(inst[p].id).val.status = "Failed"
                  /\ pc[p] = "done" => ret[p] = result[p]
            /\ ~saves[p][2].ok =>
                  /\ pc[p] = "done" /\ ~ret[p].ok /\ ret[p].err = ErrIo
                  /\ Stored(inst[p].id).ok => Stored(inst[p].id).val.status = "Pending"

\* The dispatcher failed, the final save succeeded, the run returned the error.
C4_Witness ==
    \E p \in Procs :
        /\ pc[p] = "done" /\ IsRun(p) /\ Dispatched(p) /\ ~result[p].ok
        /\ BothSavesOk(p)
        /\ ret[p] = result[p]

\* ------------------------------------------------------------------ C5
\* C5 as stated: the stored record takes each status the instance takes, so
\* an instance that is Completed or Failed has had a save in Running.
C5_EveryStatusSaved ==
    \A p \in Procs :
        (HasInstance(p) /\ inst[p].status \in {"Completed", "Failed"}) =>
            \E i \in 1..Len(saves[p]) : saves[p][i].status = "Running"

\* C5 as amended: the instance is saved right after it is created in
\* Pending, before anything else is done with it, and once more after it has
\* become Completed or Failed; no save is made in Running, so while the
\* instance is Running, and until the final save, the stored record is the
\* Pending one.
PendingImage(instance) ==
    [instance EXCEPT !.status = "Pending", !.started_at = None, !.completed_at = None,
                     !.output = None, !.error = None]

C5_SavedWhenPendingAndWhenTerminal ==
    \A p \in Procs :
        (IsRun(p) /\ HasInstance(p)) =>
            /\ \A i \in 1..Len(saves[p]) : saves[p][i].status # "Running"
            /\ pc[p] = "save_pending" =>
                  inst[p].status = "Pending" /\ saves[p] = << >> /\ spawned[p] = 0
            /\ pc[p] \in {"execute", "dispatch", "wait", "save_final"} =>
                  /\ saves[p] = <<[status |-> "Pending", ok |-> TRUE]>>
                  /\ Stored(inst[p].id) = Ok(PendingImage(inst[p]))
            /\ pc[p] = "report" =>
                  /\ inst[p].status \in {"Completed", "Failed"}
                  /\ saves[p] = <<[status |-> "Pending", ok |-> TRUE],
                                  [status |-> inst[p].status, ok |-> TRUE]>>
                  /\ Stored(inst[p].id) = Ok(inst[p])

\* The instance is Running in memory while its stored record is Pending.
C5_Witness ==
    \E p \in Procs :
        /\ pc[p] = "wait" /\ inst[p].status = "Running"
        /\ Stored(inst[p].id).ok /\ Stored(inst[p].id).val.status = "Pending"

\* ------------------------------------------------------------------ C6
\* C6: the parameters of an instance are the supplied mapping merged with the
\* schema defaults: a schema parameter with a default that the caller did not
\* supply is in the instance's parameters with the default value, and no
\* placeholder of it is left in what the dispatcher runs; a supplied value
\* overrides the default.
RECURSIVE Occurs(_, _)
Occurs(pat, text) ==
    IF Len(text) < Len(pat) THEN FALSE
    ELSE SubSeq(text, 1, Len(pat)) = pat \/ Occurs(pat, Tail(text))

C6_DefaultsMerged ==
    \A p \in Procs :
        (IsRun(p) /\ HasInstance(p)) =>
            \A n \in DOMAIN tdef[p].parameters :
                /\ n \in SuppliedKeys(cmd[p].params) =>
                      /\ n \in DOMAIN inst[p].parameters
                      /\ inst[p].parameters[n] =
                            ValueOf(cmd[p].params[LastWithKey(cmd[p].params, n)])
                /\ (IsSome(tdef[p].parameters[n].default_value)
                      /\ n \notin SuppliedKeys(cmd[p].params)) =>
                      /\ n \in DOMAIN inst[p].parameters
                      /\ inst[p].parameters[n] = tdef[p].parameters[n].default_value[1]
                      /\ IsSome(child[p]) =>
                            \A i \in 1..Len(child[p][1].args) :
                                ~Occurs(Placeholder(n), child[p][1].args[i])

\* ------------------------------------------------------------------ C7
\* C7 as stated: a definition with a required parameter without default, run
\* with tokens that do not supply the key, fails with the
\* missing-required-parameter error and creates no instance.
RequiredUnsupplied(p) ==
    /\ IsRun(p) /\ tdef[p] # NoDef
    /\ \E n \in DOMAIN tdef[p].parameters :
          /\ tdef[p].parameters[n].required
          /\ IsNone(tdef[p].parameters[n].default_value)
          /\ n \notin SuppliedKeys(cmd[p].params)

IsMissingRequiredError(r) ==
    /\ ~r.ok
    /\ r.err.variant = "TaskExecution"
    /\ r.err.detail[1] = "Required parameter '"

IsMalformedError(r) ==
    /\ ~r.ok
    /\ r.err.variant = "TaskExecution"
    /\ r.err.detail[1] = "Invalid parameter format: '"

C7_MissingRequiredError ==
    \A p \in Procs :
        (pc[p] = "done" /\ RequiredUnsupplied(p)) =>
            /\ IsMissingRequiredError(ret[p])
            /\ ~HasInstance(p)

\* C7 as amended: when every token has the form key=value the run fails with
\* the missing-required-parameter error; when a token has no '=' it fails
\* with the invalid-parameter-format error; in both cases no instance is
\* created, so none reaches Completed and no record of the run exists.
C7_MissingRequiredOrMalformed ==
    \A p \in Procs :
        RequiredUnsupplied(p) =>
            /\ ~HasInstance(p) /\ saves[p] = << >> /\ pc[p] \in {"parse", "done"}
            /\ pc[p] = "done" =>
                  IF AllHaveEq(cmd[p].params)
                  THEN IsMissingRequiredError(ret[p])
                  ELSE IsMalformedError(ret[p])

\* The run of the definition with a required parameter, given no token, has
\* returned.
C7_Witness ==
    \E p \in Procs :
        /\ pc[p] = "done" /\ RequiredUnsupplied(p) /\ cmd[p].params = << >>
        /\ IsMissingRequiredError(ret[p])

\* ------------------------------------------------------------------ C8
\* C8: for tokens that each contain '=', parse_parameters succeeds and
\* returns the mapping whose keys are exactly the texts before the first '='
\* of the tokens, each mapped to the text after the first '=' of the last
\* token with that key.
IsParse(p) == pc[p] = "done" /\ cmd[p].op = "parse"

C8_ParseLastWins ==
    \A p \in Procs :
        (IsParse(p) /\ AllHaveEq(cmd[p].params)) =>
            /\ ret[p].ok
            /\ DOMAIN ret[p].val = SuppliedKeys(cmd[p].params)
            /\ \A k \in DOMAIN ret[p].val :
                  ret[p].val[k] = ValueOf(cmd[p].params[LastWithKey(cmd[p].params, k)])

\* Two tokens with the same key and different values, the later one holding
\* a second '=', have been parsed.
C8_Witness ==
    \E p \in Procs :
        /\ IsParse(p)
        /\ cmd[p].params = << <<"a", "=">>, <<"a", "=", "=">> >>
        /\ ret[p].ok /\ ret[p].val[<<"a">>] = <<"=">>

\* ------------------------------------------------------------------ C9
\* C9: when some token has no '=', parse_parameters fails wherever that token
\* stands; the error quotes the first such token and no mapping is returned.
FirstWithoutEq(toks) ==
    CHOOSE i \in 1..Len(toks) : ~HasEq(toks[i]) /\ \A j \in 1..(i - 1) : HasEq(toks[j])

C9_MalformedTokenFails ==
    \A p \in Procs :
        (IsParse(p) /\ ~AllHaveEq(cmd[p].params)) =>
            /\ ~ret[p].ok
            /\ "val" \notin DOMAIN ret[p]
            /\ ret[p].err.variant = "TaskExecution"
            /\ ret[p].err.detail = <<"Invalid parameter format: '">>
                                      \o cmd[p].params[FirstWithoutEq(cmd[p].params)]
                                      \o <<"'. Use key=value">>

\* A well-formed token followed by a token without '=' has been parsed.
C9_Witness ==
    \E p \in Procs :
        /\ IsParse(p)
        /\ cmd[p].params = << <<"a", "=", "a">>, <<"a", "a">> >>
        /\ ~ret[p].ok

\* ------------------------------------------------------------------ C10
\* C10 as stated: after any sequence of save calls, a load by id returns the
\* instance most recently saved with that id.
C10_LoadReturnsLastSaved ==
    \A id \in StoreIds :
        lastSaved[id] # NoInstance => Stored(id) = Ok(lastSaved[id])

\* C10 as amended: when the latest save call for an id succeeded, a load of
\* that id returns exactly the instance of that call, whatever was stored
\* before (no merge); when no save call was made for the id the load fails
\* with not-found; when the latest save call failed, the load returns the
\* instance of the latest successful call, fails to deserialize a partly
\* written record, or finds none.
NotFoundInstance(id) == Err(ErrResourceNotFound(<<"Task instance: ", id>>))

LoadAnswers(id) ==
    IF lastFailed[id]
    THEN {Err(ErrSerde)} \cup
         (IF lastSaved[id] # NoInstance THEN {Ok(lastSaved[id])} ELSE {NotFoundInstance(id)})
    ELSE IF lastSaved[id] # NoInstance THEN {Ok(lastSaved[id])}
    ELSE {NotFoundInstance(id)}

C10_LoadReturnsLastSuccessfulSave ==
    /\ \A id \in StoreIds : Stored(id) \in LoadAnswers(id)
    /\ \A p \in Procs :
         (pc[p] = "done" /\ cmd[p].op = "load") => ret[p] \in LoadAnswers(cmd[p].id)

\* A load has returned the instance of the latest save, a Pending one, which
\* replaced a different record stored before under the same id.
C10_Witness ==
    \E p \in Procs :
        /\ pc[p] = "done" /\ cmd[p].op = "load"
        /\ ~lastFailed[cmd[p].id]
        /\ replaced[cmd[p].id]
        /\ lastSaved[cmd[p].id].status = "Pending"
        /\ ret[p] = Ok(lastSaved[cmd[p].id])

\* ------------------------------------------------------------------ C11
\* C11: for every content of the state directory, the lookup by definition
\* name returns a record that deserializes, has that definition name, and
\* whose created_at is at least that of every other deserializable record of
\* the name; a file that does not deserialize is never returned and never
\* makes the lookup fail; the lookup fails with not-found exactly when no
\* deserializable record has the name, the directory not existing included.
IsStatus(p) == pc[p] = "done" /\ cmd[p].op = "status"
ByName(p) == IsStatus(p) /\ IsNone(ParseUuid(cmd[p].task))
ById(p) == IsStatus(p) /\ IsSome(ParseUuid(cmd[p].task))

RecordAt(id) == FromJson(store[id].doc)
Matching(n) ==
    {id \in Ids : /\ store[id].kind = "json"
                  /\ WellFormedDoc(store[id].doc)
                  /\ RecordAt(id).definition_name = n}

IsNotFound(r) == ~r.ok /\ r.err.variant = "ResourceNotFound"

C11_LatestByName ==
    \A p \in Procs :
        ByName(p) =>
            IF Matching(cmd[p].task) = {}
            THEN IsNotFound(ret[p]) /\ ~HasInstance(p)
            ELSE /\ ret[p].ok
                 /\ \E id \in Matching(cmd[p].task) : inst[p] = RecordAt(id)
                 /\ \A id \in Matching(cmd[p].task) :
                       inst[p].created_at >= RecordAt(id).created_at

\* The lookup has returned the later of two records of the name while the
\* directory also holds a partly written file.
C11_Witness ==
    \E p \in Procs :
        /\ ByName(p) /\ ret[p].ok
        /\ \E i, j \in Matching(cmd[p].task) :
              RecordAt(i).created_at < RecordAt(j).created_at
        /\ \E k \in Ids : store[k] = Partial

\* ------------------------------------------------------------------ C12
\* C12: show_task_status given the text of an identifier looks the record up
\* by identifier only: when no record of that identifier exists it fails with
\* not-found, also when a record has that text as its definition name; when
\* it succeeds the record shown is the one stored under the identifier; the
\* state directory is left as it was.
C12_ById ==
    \A p \in Procs :
        ById(p) =>
            /\ ~PathExists(store, ParseUuid(cmd[p].task)[1]) =>
                  IsNotFound(ret[p]) /\ ~HasInstance(p)
            /\ ret[p].ok => inst[p] = RecordAt(ParseUuid(cmd[p].task)[1])

C12_StatusByIdNotFound == []C12_ById /\ [][store' = store]_vars

\* The status of an identifier without a record has been asked for while a
\* record of another identifier has that text as its definition name.
C12_Witness ==
    \E p \in Procs :
        /\ ById(p) /\ IsNotFound(ret[p])
        /\ store[ParseUuid(cmd[p].task)[1]] = NoFile
        /\ Matching(cmd[p].task) # {}

\* ------------------------------------------------------------------ C13
\* C13: create_task for a name whose definition file exists fails with the
\* already-exists error, with or without a source file, and leaves the
\* definitions directory as it was.
IsCreate(p) == cmd[p].op = "create"

C13_Step ==
    \A p \in Procs :
        (pc[p] = "idle" /\ pc'[p] # "idle" /\ cmd'[p].op = "create"
            /\ defs[cmd'[p].name] # NoFile) =>
            /\ pc'[p] = "done"
            /\ ret'[p] = Err(AlreadyExists(cmd'[p].name))
            /\ defs' = defs

C13_CreateExistingFails == [][C13_Step]_vars

\* create_task with a source file has failed for a name that exists.
C13_Witness ==
    \E p \in Procs :
        /\ pc[p] = "done" /\ IsCreate(p)
        /\ cmd[p].name = "greet" /\ cmd[p].file = Some("src.toml")
        /\ ret[p] = Err(AlreadyExists("greet"))
        /\ defs["greet"] = TomlFile(GreetDef)

\* ------------------------------------------------------------------ C14
\* C14 as stated: when all overlapping runs have finished, the state
\* directory holds, for every run that created an instance, one record with
\* that run's terminal status.
AllFinished == \A p \in Procs : pc[p] \in {"idle", "done"}
Terminal(instance) == instance.status \in {"Completed", "Failed"}

C14_TerminalRecordPerRun ==
    AllFinished =>
        \A id \in 1..nextId : Stored(id).ok /\ Terminal(Stored(id).val)

\* C14 as amended: overlapping runs have different instance identifiers and
\* a step of a run writes only the record of its own identifier; no step
\* removes a record or writes the record of another run; a run whose two
\* saves succeeded has, from its final save on and whatever the other runs
\* do, its own terminal instance as the stored record; a run whose save
\* failed leaves its latest successful save, a partly written file or no
\* record under its identifier.
C14_Inv ==
    /\ \A p, q \in Procs :
          (p # q /\ HasInstance(p) /\ HasInstance(q)) => inst[p].id # inst[q].id
    /\ \A p \in Procs :
          (pc[p] \in {"report", "done"} /\ IsRun(p) /\ HasInstance(p) /\ BothSavesOk(p)) =>
              /\ Terminal(inst[p])
              /\ Stored(inst[p].id) = Ok(inst[p])
    /\ \A id \in Ids :
          /\ id > nextId => store[id] = NoFile
          /\ (lastSaved[id] # NoInstance /\ ~lastFailed[id]) => Stored(id) = Ok(lastSaved[id])
          /\ lastFailed[id] =>
                \/ store[id] \in {NoFile, Partial}
                \/ lastSaved[id] # NoInstance /\ Stored(id) = Ok(lastSaved[id])

C14_Step ==
    \A id \in Ids :
        store'[id] # store[id] =>
            /\ store'[id] # NoFile
            /\ \E p \in Procs :
                  /\ HasInstance(p) /\ inst[p].id = id
                  /\ pc[p] \in {"save_pending", "save_final"}
                  /\ pc'[p] # pc[p]
                  /\ \A q \in Procs \ {p} : pc'[q] = pc[q]

C14_RunsWriteOwnRecord == []C14_Inv /\ [][C14_Step]_vars

\* Two overlapping runs of the same definition have both returned, one
\* Completed and one Failed, each with its own record stored.
C14_Witness ==
    /\ conc
    /\ \A p \in Procs :
          /\ pc[p] = "done" /\ IsRun(p) /\ cmd[p].name = "greet"
          /\ HasInstance(p) /\ BothSavesOk(p)
          /\ Stored(inst[p].id) = Ok(inst[p])
    /\ inst["p1"].status = "Completed"
    /\ inst["p2"].status = "Failed"

\* ------------------------------------------------------------------ C15
\* C15: within one run the command dispatcher is called at most once and at
\* most one child is spawned, whatever the definition's retry_count; the
\* retry_count of the instance is 0 in memory, in every save call and in
\* every stored record, also after a failing run.
C15_NoRetry ==
    /\ \A p \in Procs :
          /\ dispatches[p] <= 1
          /\ spawned[p] <= 1
          /\ HasInstance(p) => inst[p].retry_count = 0
          /\ (IsRun(p) /\ pc[p] \in {"save_final", "report", "done"} /\ Dispatched(p)) =>
                dispatches[p] = 1
    /\ \A id \in Ids :
          /\ Stored(id).ok => Stored(id).val.retry_count = 0
          /\ lastSaved[id] # NoInstance => lastSaved[id].retry_count = 0

\* A run of the definition with retry_count 3 has failed and returned after
\* one call of the dispatcher.
C15_Witness ==
    \E p \in Procs :
        /\ pc[p] = "done" /\ IsRun(p) /\ BothSavesOk(p)
        /\ tdef[p].retry_count = Some(3)
        /\ ~result[p].ok
        /\ dispatches[p] = 1
        /\ Stored(inst[p].id).val.status = "Failed"
        /\ Stored(inst[p].id).val.retry_count = 0

\* ------------------------------------------------------------------ C16
\* C16: run_task returns success only when the instance has ended Completed;
\* whenever the dispatcher has failed, the instance is Failed with a
\* non-empty error text from then on, run_task returns an error in the same
\* invocation, and when the final save succeeded that error is the
\* dispatcher's.
C16_FailureReturned ==
    \A p \in Procs :
        IsRun(p) =>
            /\ (pc[p] = "done" /\ ret[p].ok) =>
                  /\ HasInstance(p) /\ inst[p].status = "Completed"
                  /\ result[p].ok
            /\ (Dispatched(p) /\ ~result[p].ok) =>
                  /\ inst[p].status = "Failed"
                  /\ IsSome(inst[p].error) /\ Len(inst[p].error[1]) > 0
                  /\ inst[p].error[1] = ErrorToString(result[p].err)
                  /\ pc[p] \in {"save_final", "report", "done"}
                  /\ pc[p] = "done" =>
                        /\ ~ret[p].ok
                        /\ BothSavesOk(p) => ret[p] = result[p]

\* A System command whose binary could not be started: no child was spawned,
\* the instance is Failed and run_task has returned the error.
C16_Witness ==
    \E p \in Procs :
        /\ pc[p] = "done" /\ IsRun(p) /\ ShellOrSystem(p)
        /\ tdef[p].command.variant = "System"
        /\ Dispatched(p) /\ spawned[p] = 0
        /\ inst[p].status = "Failed"
        /\ ret[p] = Err(SpawnError(tdef[p].command))

\* ------------------------------------------------------------------ C17
\* C17: for every instance, in memory and stored: started_at is set exactly
\* when the status is Running, Completed or Failed, completed_at exactly when
\* it is Completed or Failed, and created_at <= started_at <= completed_at;
\* a step never changes created_at, and never changes started_at or
\* completed_at once it is set.
Stamped(instance) ==
    /\ IsSome(instance.started_at) <=> instance.status \in {"Running", "Completed", "Failed"}
    /\ IsSome(instance.completed_at) <=> instance.status \in {"Completed", "Failed"}
    /\ IsSome(instance.started_at) => instance.created_at <= instance.started_at[1]
    /\ IsSome(instance.completed_at) => instance.started_at[1] <= instance.completed_at[1]

C17_Inv ==
    /\ \A p \in Procs : HasInstance(p) => Stamped(inst[p])
    /\ \A id \in Ids : Stored(id).ok => Stamped(Stored(id).val)

C17_Step ==
    \A p \in Procs :
        (HasInstance(p) /\ inst'[p] # NoInstance) =>
            /\ inst'[p].created_at = inst[p].created_at
            /\ IsSome(inst[p].started_at) => inst'[p].started_at = inst[p].started_at
            /\ IsSome(inst[p].completed_at) => inst'[p].completed_at = inst[p].completed_at

C17_Timestamps == []C17_Inv /\ [][C17_Step]_vars

\* A failed instance created before the clock moved and completed after it.
C17_Witness ==
    \E p \in Procs :
        /\ IsRun(p) /\ HasInstance(p) /\ inst[p].status = "Failed"
        /\ IsSome(inst[p].started_at) /\ IsSome(inst[p].completed_at)
        /\ inst[p].created_at < inst[p].completed_at[1]
        /\ pc[p] = "done"

\* ------------------------------------------------------------------ C18
\* C18: no stored record ever has status Running; from the first save until
\* the final save, the command executing in between, the stored record of
\* the instance is the Pending one with started_at unset; and the record of
\* an identifier that no live process holds is never written again, so the
\* record of a process that stopped between its two saves stays Pending.
Owned(id) == \E p \in Procs : HasInstance(p) /\ inst[p].id = id

C18_Inv ==
    /\ \A id \in Ids :
          Stored(id).ok => Stored(id).val.status \in {"Pending", "Completed", "Failed"}
    /\ \A p \in Procs :
          (IsRun(p) /\ pc[p] \in {"execute", "dispatch", "wait", "save_final"}) =>
              /\ Stored(inst[p].id).ok
              /\ Stored(inst[p].id).val.status = "Pending"
              /\ IsNone(Stored(inst[p].id).val.started_at)
    /\ \A id \in Ids :
          (~Owned(id) /\ lastSaved[id] # NoInstance /\ lastSaved[id].status = "Pending"
              /\ ~lastFailed[id]) =>
              Stored(id) = Ok(lastSaved[id])

C18_Step == \A id \in Ids : ~Owned(id) => store'[id] = store[id]

C18_RunningNeverStored == []C18_Inv /\ [][C18_Step]_vars

\* A process stopped between its two saves; a later invocation has returned
\* and the record of the stopped run is still the Pending one.
C18_Witness ==
    \E id \in Ids :
        /\ ~Owned(id)
        /\ lastSaved[id] # NoInstance /\ lastSaved[id].status = "Pending" /\ ~lastFailed[id]
        /\ Stored(id).ok /\ Stored(id).val.status = "Pending"
        /\ \E p \in Procs : pc[p] = "done" /\ IsRun(p)

\* ------------------------------------------------------------------ C19
\* C19 as stated: every dispatch of a Shell or System command spawns exactly
\* one child process.
C19_OneChildPerDispatch ==
    \A p \in Procs :
        (IsRun(p) /\ ShellOrSystem(p) /\ Dispatched(p)) => spawned[p] = 1

\* C19 as amended: an instance exists only after the definition was loaded
\* and the tokens parsed and validated; the dispatcher is called only after
\* the Pending record was saved successfully, and a failed first save ends
\* the run without dispatch; the final save comes after the dispatch and
\* before the report; a dispatch of a Shell or System command starts at most
\* one child process, exactly one unless the process could not be started,
\* and a Module command starts none.
C19_Inv ==
    \A p \in Procs :
        IsRun(p) =>
            /\ HasInstance(p) =>
                  /\ tdef[p] # NoDef /\ Ok(tdef[p]) = load_task_definition(cmd[p].name, defs)
                  /\ AllHaveEq(cmd[p].params)
                  /\ ~FailsBeforeCreate(cmd[p].name, cmd[p].params)
            /\ (dispatches[p] > 0 \/ pc[p] \in {"execute", "dispatch"}) =>
                  /\ Len(saves[p]) >= 1
                  /\ saves[p][1] = [status |-> "Pending", ok |-> TRUE]
            /\ (Len(saves[p]) >= 1 /\ ~saves[p][1].ok) =>
                  /\ pc[p] = "done" /\ ~ret[p].ok
                  /\ dispatches[p] = 0 /\ spawned[p] = 0 /\ ~Dispatched(p)
            /\ Len(saves[p]) <= 2
            /\ Len(saves[p]) = 2 =>
                  /\ dispatches[p] = 1 /\ Dispatched(p)
                  /\ saves[p][2].status \in {"Completed", "Failed"}
            /\ pc[p] = "report" => Len(saves[p]) = 2 /\ saves[p][2].ok
            /\ (pc[p] = "done" /\ ret[p].ok) => BothSavesOk(p)
            /\ spawned[p] <= dispatches[p] /\ dispatches[p] <= 1
            /\ (tdef[p] # NoDef /\ tdef[p].command.variant = "Module") =>
                  spawned[p] = 0 /\ IsNone(child[p])
            /\ ShellOrSystem(p) =>
                  /\ spawned[p] = 1 <=> IsSome(child[p])
                  /\ (Dispatched(p) /\ spawned[p] = 0) =>
                        result[p] = Err(SpawnError(tdef[p].command))
            /\ pc[p] = "wait" => spawned[p] = 1

C19_Step ==
    \A p \in Procs :
        pc'[p] # pc[p] =>
            <<pc[p], pc'[p]>> \in
                {<<"idle", "parse">>, <<"idle", "done">>, <<"parse", "save_pending">>,
                 <<"parse", "done">>, <<"save_pending", "execute">>,
                 <<"save_pending", "done">>, <<"execute", "dispatch">>,
                 <<"dispatch", "wait">>, <<"dispatch", "save_final">>,
                 <<"wait", "save_final">>, <<"save_final", "report">>,
                 <<"save_final", "done">>, <<"report", "done">>, <<"done", "idle">>}

C19_StepOrder == []C19_Inv /\ [][C19_Step]_vars

\* A Shell run has returned success: one dispatch, one child, two saves.
C19_Witness ==
    \E p \in Procs :
        /\ pc[p] = "done" /\ IsRun(p) /\ ShellOrSystem(p)
        /\ tdef[p].command.variant = "Shell"
        /\ ret[p].ok
        /\ dispatches[p] = 1 /\ spawned[p] = 1 /\ BothSavesOk(p)

\* ------------------------------------------------------------------ C20
\* C20: for well-formed tokens, validation succeeds (the run constructs its
\* instance) exactly when every schema entry that is required and has no
\* default has its key among the supplied keys; otherwise the run fails with
\* the missing-required-parameter error.  A missing optional parameter, a
\* missing required parameter with a default, and a supplied key the schema
\* does not declare do not make it fail; the instance's parameters are
\* exactly the supplied keys with their values, undeclared keys included, and
\* they are persisted with it.
Validated(p) ==
    /\ IsRun(p) /\ tdef[p] # NoDef /\ AllHaveEq(cmd[p].params)
    /\ pc[p] \notin {"idle", "parse"}

SchemaSatisfied(p) ==
    \A n \in DOMAIN tdef[p].parameters :
        (tdef[p].parameters[n].required /\ IsNone(tdef[p].parameters[n].default_value)) =>
            n \in SuppliedKeys(cmd[p].params)

C20_ValidateExactly ==
    \A p \in Procs :
        Validated(p) =>
            /\ HasInstance(p) <=> SchemaSatisfied(p)
            /\ ~HasInstance(p) => pc[p] = "done" /\ IsMissingRequiredError(ret[p])
            /\ HasInstance(p) =>
                  /\ DOMAIN inst[p].parameters = SuppliedKeys(cmd[p].params)
                  /\ \A k \in DOMAIN inst[p].parameters :
                        inst[p].parameters[k] =
                            ValueOf(cmd[p].params[LastWithKey(cmd[p].params, k)])
                  /\ lastSaved[inst[p].id] # NoInstance =>
                        lastSaved[inst[p].id].parameters = inst[p].parameters
                  /\ Stored(inst[p].id).ok =>
                        Stored(inst[p].id).val.parameters = inst[p].parameters

\* A run given a key that its schema does not declare has returned, and the
\* stored record holds that key.
C20_Witness ==
    \E p \in Procs :
        /\ Validated(p) /\ pc[p] = "done" /\ HasInstance(p)
        /\ <<"x">> \notin DOMAIN tdef[p].parameters
        /\ Stored(inst[p].id).ok
        /\ <<"x">> \in DOMAIN Stored(inst[p].id).val.parameters

\* ------------------------------------------------------------------ C21
\* C21 as stated: every run of a Module definition that passes validation
\* ends Completed with output set.
IsModule(p) == tdef[p] # NoDef /\ tdef[p].command.variant = "Module"

C21_ModuleRunEndsCompleted ==
    \A p \in Procs :
        (IsRun(p) /\ pc[p] = "done" /\ HasInstance(p) /\ IsModule(p)) =>
            inst[p].status = "Completed" /\ IsSome(inst[p].output)

\* C21 as amended: for every module name, action and parameter mapping the
\* Module dispatch returns a text that begins with the fixed words and holds
\* the module, the action and every key and value of the definition's
\* mapping; a run of a Module definition that has saved its Pending record
\* is dispatched without failure, its output is such a text whatever tokens
\* the caller gave, and its instance is Completed with output set; a run
\* whose first save failed returns that error with its instance Pending.
ModuleCommands ==
    {[variant |-> "Module", module |-> m, action |-> a, params |-> ps] :
        m \in {"system", "nosuchmodule"}, a \in {"status", ""},
        ps \in {EmptyMap, (<<"k">> :> <<"v">>), (<<"k">> :> <<"v">>) @@ (<<"j">> :> << >>)}}

DescribesCall(out, command) ==
    /\ Len(out) = 5 + Cardinality(DOMAIN command.params)
    /\ out[1] = "Module command executed: "
    /\ out[2] = command.module /\ out[4] = command.action
    /\ {out[i] : i \in 6..Len(out)} =
          {<<k, command.params[k]>> : k \in DOMAIN command.params}

C21_ModuleDispatch ==
    /\ \A command \in ModuleCommands :
          /\ ModuleOutputs(command) # {}
          /\ \A out \in ModuleOutputs(command) : DescribesCall(out, command)
    /\ \A p \in Procs :
          (IsRun(p) /\ HasInstance(p) /\ IsModule(p)) =>
              /\ (Len(saves[p]) >= 1 /\ saves[p][1].ok
                    /\ pc[p] \in {"save_final", "report", "done"}) =>
                    /\ result[p].ok
                    /\ DescribesCall(result[p].val, tdef[p].command)
                    /\ inst[p].status = "Completed"
                    /\ inst[p].output = Some(result[p].val)
                    /\ IsNone(inst[p].error)
              /\ (Len(saves[p]) >= 1 /\ ~saves[p][1].ok) =>
                    pc[p] = "done" /\ ret[p] = Err(ErrIo) /\ inst[p].status = "Pending"

\* A Module run given tokens has returned success with the text of the
\* definition's mapping as output.
C21_Witness ==
    \E p \in Procs :
        /\ IsRun(p) /\ pc[p] = "done" /\ HasInstance(p) /\ IsModule(p)
        /\ cmd[p].params # << >>
        /\ ret[p].ok
        /\ inst[p].status = "Completed"
        /\ DescribesCall(inst[p].output[1], ModDef.command)

\* ------------------------------------------------------------------ C22
\* C22: the child of a System command is started with the definition's
\* command text unchanged, also when it holds a placeholder, and with as many
\* arguments as the definition has, in the same order; each argument is the
\* definition's argument with every placeholder of a key of the instance's
\* parameters replaced by that key's value, and an argument without such a
\* placeholder is passed as it is.
\* The text with every placeholder of a key of the mapping replaced by the
\* key's own value, read left to right, replaced text not read again.
RECURSIVE SubstAll(_, _)
SubstAll(text, parameters) ==
    IF text = << >> THEN << >>
    ELSE LET here == {k \in DOMAIN parameters :
                        /\ Len(Placeholder(k)) <= Len(text)
                        /\ SubSeq(text, 1, Len(Placeholder(k))) = Placeholder(k)}
         IN  IF here = {} THEN <<text[1]>> \o SubstAll(Tail(text), parameters)
             ELSE LET k == CHOOSE k \in here : TRUE
                  IN  parameters[k]
                        \o SubstAll(SubSeq(text, Len(Placeholder(k)) + 1, Len(text)), parameters)

IsSystem(p) == tdef[p] # NoDef /\ tdef[p].command.variant = "System"

IsExpand(p) == cmd[p] # NoCmd /\ cmd[p].op = "expand" /\ pc[p] = "done"

Letters == {"a", "b", "v", "x"}
PlainText(text) == \A i \in 1..Len(text) : text[i] \in Letters

\* The text is plain letters and whole placeholders of plain names.
RECURSIVE PlaceholdersAndText(_)
PlaceholdersAndText(text) ==
    \/ text = << >>
    \/ text[1] \in Letters /\ PlaceholdersAndText(Tail(text))
    \/ /\ Len(text) >= 3
       /\ text[1] = "$" /\ text[2] = "{"
       /\ \E j \in 3..Len(text) :
            /\ text[j] = "}"
            /\ PlainText(SubSeq(text, 3, j - 1))
            /\ PlaceholdersAndText(SubSeq(text, j + 1, Len(text)))

IsPrefix(short, long) == Len(short) < Len(long) /\ SubSeq(long, 1, Len(short)) = short

C24_ExpansionDetermined ==
    \A p \in Procs :
        IsExpand(p) =>
            /\ \A order \in Orders(DOMAIN cmd[p].parameters) :
                  ret[p] = Ok(Expand(cmd[p].script, cmd[p].parameters, order))
            /\ \A k \in DOMAIN cmd[p].parameters : ~Occurs(Placeholder(k), ret[p].val)

\* ------------------------------------------------------------------ C25
\* C25: with the steps of the run taken and the child exiting, a run that
\* has saved its Pending record gets to its final save, of a Completed or
\* Failed instance, and then returns; when that save succeeds the stored
\* record is that instance.  No deadline ends the wait: while the child has
\* not exited the run has not returned and its stored record is Pending, and
\* the wait ends only with the child's exit, however far the clock is past
\* timeout_seconds.
C25_Returned(p) ==
    /\ pc[p] = "done"
    /\ Len(saves[p]) = 2
    /\ saves[p][2].status \in {"Completed", "Failed"}
    /\ saves[p][2].ok => Stored(inst[p].id) = Ok(inst[p]) /\ Terminal(inst[p])

C25_Inv ==
    \A p \in Procs :
        (IsRun(p) /\ pc[p] = "wait") =>
            /\ ret[p] = NoResult
            /\ Stored(inst[p].id).ok
            /\ Stored(inst[p].id).val.status = "Pending"

C25_Step ==
    \A p \in Procs :
        (IsRun(p) /\ pc[p] = "wait" /\ pc'[p] # "wait") =>
            result'[p] \in {Ok(out) : out \in Stdouts}
                             \cup {Err(ExitError(tdef[p].command, e)) : e \in Stderrs}

C25_RunsToCompletion ==
    /\ \A p \in Procs : (IsRun(p) /\ pc[p] = "execute") ~> C25_Returned(p)
    /\ []C25_Inv
    /\ [][C25_Step]_vars

\* A run whose child exited successfully after the definition's
\* timeout_seconds had passed has stored its Completed instance and returned.
C25_Witness ==
    \E p \in Procs :
        /\ IsRun(p) /\ HasInstance(p) /\ C25_Returned(p) /\ BothSavesOk(p)
        /\ IsSome(tdef[p].timeout_seconds)
        /\ inst[p].status = "Completed"
        /\ inst[p].completed_at[1] >= inst[p].started_at[1] + tdef[p].timeout_seconds[1]

\* ------------------------------------------------------------------ C26
\* C26: id, definition_name, parameters, created_at and retry_count of an
\* instance are set when it is constructed and never change: no step changes
\* them in memory or in the stored record of an identifier, the stored record
\* of a run has the identity of the run's instance, and so the Pending record
\* and the final record of a run agree on them.  The definition_name is the
\* name the caller asked for.
Identity(instance) ==
    <<instance.id, instance.definition_name, instance.parameters, instance.created_at,
      instance.retry_count>>

C26_Inv ==
    \A p \in Procs :
        (IsRun(p) /\ HasInstance(p)) =>
            /\ inst[p].definition_name = cmd[p].name
            /\ inst[p].parameters = parse_parameters(cmd[p].params).val
            /\ inst[p].retry_count = 0
            /\ Stored(inst[p].id).ok => Identity(Stored(inst[p].id).val) = Identity(inst[p])

C26_Step ==
    /\ \A p \in Procs :
          (HasInstance(p) /\ inst'[p] # NoInstance) => Identity(inst'[p]) = Identity(inst[p])
    /\ \A id \in Ids :
          (Stored(id).ok /\ load_task_instance_by_id(id, store').ok) =>
              Identity(load_task_instance_by_id(id, store').val) = Identity(Stored(id).val)

C26_IdentityUnchanged == []C26_Inv /\ [][C26_Step]_vars

\* A run with a parameter has stored its Pending record and then, over it,
\* its Failed record.
C26_Witness ==
    \E p \in Procs :
        /\ IsRun(p) /\ HasInstance(p) /\ pc[p] = "done" /\ BothSavesOk(p)
        /\ saves[p][1].status = "Pending" /\ saves[p][2].status = "Failed"
        /\ replaced[inst[p].id]
        /\ DOMAIN inst[p].parameters # {}
        /\ Stored(inst[p].id) = Ok(inst[p])

\* ------------------------------------------------------------------ C27
StoredNext(id) == load_task_instance_by_id(id, store')
ReadOnlyStep(p) == pc[p] = "idle" /\ cmd'[p] # NoCmd /\ cmd'[p].op \in {"list", "status"}

\* C27 as stated: a record that is stored is still stored after every step
\* of a list, run, status or create, a stored Completed or Failed record is
\* the same record after every step, and list_tasks and show_task_status
\* leave both directories as they are.
C27_Kept ==
    /\ \A id \in Ids : Stored(id).ok => StoredNext(id).ok
    /\ \A id \in Ids : (Stored(id).ok /\ Terminal(Stored(id).val)) => StoredNext(id) = Stored(id)
    /\ \A p \in Procs : ReadOnlyStep(p) => defs' = defs /\ store' = store

C27_RecordsKept == [][C27_Kept]_vars

\* C27 as amended: no step removes a file of the state directory or of the
\* definitions directory; a stored Completed or Failed record is the same
\* after every step; a stored record changes only by the final save of the
\* run that owns it, which replaces the Pending record by the terminal one
\* or, when the write fails, can leave a file that is no record;
\* list_tasks and show_task_status leave both directories as they are,
\* create_task leaves the state directory and run_task the definitions
\* directory as it is.
C27_Step ==
    /\ \A id \in Ids : PathExists(store, id) => PathExists(store', id)
    /\ \A n \in TaskNames : PathExists(defs, n) => PathExists(defs', n)
    /\ \A id \in Ids : (Stored(id).ok /\ Terminal(Stored(id).val)) => store'[id] = store[id]
    /\ \A id \in Ids :
          (Stored(id).ok /\ store'[id] # store[id]) =>
              \E p \in Procs :
                  /\ IsRun(p) /\ pc[p] = "save_final" /\ inst[p].id = id
                  /\ Stored(id).val.status = "Pending"
                  /\ \/ StoredNext(id) = Ok(inst[p]) /\ Terminal(inst[p])
                     \/ ~StoredNext(id).ok /\ pc'[p] = "done" /\ ret'[p] = Err(ErrIo)
    /\ \A p \in Procs : ReadOnlyStep(p) => defs' = defs /\ store' = store
    /\ \A p \in Procs :
          (pc'[p] # pc[p] /\ cmd'[p] # NoCmd /\ cmd'[p].op = "create") => store' = store
    /\ \A p \in Procs :
          (pc'[p] # pc[p] /\ cmd'[p] # NoCmd /\ cmd'[p].op = "run") => defs' = defs

C27_RecordsStay == [][C27_Step]_vars

\* The record of a finished run is stored, a later run has started, and the
\* other process has listed the definitions.
C27_Witness ==
    /\ Stored(1).ok /\ Terminal(Stored(1).val) /\ ~Owned(1)
    /\ nextId = 2
    /\ pc["p2"] = "done" /\ cmd["p2"].op = "list"
    /\ "greet" \in cmd["p2"].names

\* ------------------------------------------------------------------ C28
\* C28: of two create_task invocations with the same name that overlap, at
\* most one succeeds and the other one fails with the already-exists error,
\* and no create_task writes over a definition file that exists.
CreatedBy(p) == cmd[p] # NoCmd /\ cmd[p].op = "create" /\ pc[p] = "done"

C28_Inv ==
    \A p, q \in Procs :
        (p # q /\ CreatedBy(p) /\ CreatedBy(q) /\ cmd[p].name = cmd[q].name) =>
            /\ ~(ret[p].ok /\ ret[q].ok)
            /\ ret[p].ok => ret[q] = Err(AlreadyExists(cmd[q].name))

C28_Step == \A n \in TaskNames : PathExists(defs, n) => defs'[n] = defs[n]

C28_CreateExclusive == []C28_Inv /\ [][C28_Step]_vars

\* ------------------------------------------------------------------ C29
\* C29: after any sequence of create_task every definition file that loads
\* has a name field equal to its stem; a create_task without a source file
\* that succeeded has stored, and a following load returns, a definition
\* named as asked, with a Shell command and one parameter, which is not
\* required and has a default; a create_task with a source file that
\* succeeded has stored a definition named as asked.
C29_StemIsName ==
    /\ \A n \in TaskNames :
          load_task_definition(n, defs).ok => load_task_definition(n, defs).val.name = n
    /\ \A p \in Procs :
          (CreatedBy(p) /\ ret[p].ok) =>
              LET d == load_task_definition(cmd[p].name, defs)
              IN  /\ d.ok
                  /\ d.val.name = cmd[p].name
                  /\ IsNone(cmd[p].file) =>
                        /\ d.val.command.variant = "Shell"
                        /\ Cardinality(DOMAIN d.val.parameters) = 1
                        /\ \A k \in DOMAIN d.val.parameters :
                              /\ ~d.val.parameters[k].required
                              /\ IsSome(d.val.parameters[k].default_value)

====
